---- MODULE Spec2Model ----
(***************************************************************************)
(* ForgeAI: the versioned state manager (src/src/state/state-manager.ts)   *)
(* over the virtual file system (src/src/state/virtual-fs.ts) and a        *)
(* storage adapter (src/unnamed/part_001, src/src/adapters), and the Agent *)
(* (src/src/orchestrator/agent.ts) that drives a request through the       *)
(* intent, plan, execute and validate phases (src/src/orchestrator/phases) *)
(* under the PolicyGate (src/src/utils/package-parser.ts), with its        *)
(* EventEmitter (src/unnamed/part_002), the InMemoryAdapter                *)
(* (src/src/adapters/memory.adapter.ts) and the dependency graph of the    *)
(* virtual files (src/src/types/providers.ts).                             *)
(*                                                                         *)
(* Timestamps (Date.now()) and generated message ids are left out: no      *)
(* operation of the state manager reads them back. Prompts, the data of    *)
(* events and the data of phase results are left out of the Agent: no step *)
(* of sendMessage branches on them.                                        *)
(***************************************************************************)
EXTENDS Integers, Sequences, FiniteSets, TLC

(***************************************************************************)
(* Bounds of the model                                                     *)
(***************************************************************************)
\* operations of one run of Spec
MaxSteps == 4
\* writes to one path in SpecVfs
MaxWrites == 4
\* State.version reached in SpecFifo
MaxFifoVersion == 2

(***************************************************************************)
(* Program constants                                                       *)
(***************************************************************************)
\* StateManager.maxSnapshots
maxSnapshots == 10

Undef == "undefined"

Paths == {"/x.ts", "/y.css"}
Contents == {"a", "b"}

(***************************************************************************)
(* VirtualFileSystem                                                       *)
(***************************************************************************)
\* path.split('.').pop().toLowerCase() on the paths of the model
Ext(path) == IF path \in {"/x.ts", "/etc/x.ts"} THEN "ts" ELSE "css"

\* VirtualFileSystem.inferLanguage: languageMap[ext], undefined when unmapped
inferLanguage(path) ==
    LET ext == Ext(path) IN
    CASE ext \in {"ts", "tsx"} -> "typescript"
      [] ext \in {"js", "jsx"} -> "javascript"
      [] ext = "json" -> "json"
      [] ext = "html" -> "html"
      [] ext = "md" -> "markdown"
      [] OTHER -> Undef

\* the empty Map
EmptyFiles == [p \in {} |-> Undef]

exists(files, path) == path \in DOMAIN files

\* Map.set
MapSet(files, path, file) ==
    [p \in (DOMAIN files) \cup {path} |-> IF p = path THEN file ELSE files[p]]

\* Map.delete
MapDelete(files, path) == [p \in (DOMAIN files) \ {path} |-> files[p]]

\* the VirtualFile writeFile builds: version = (existing?.version || 0) + 1,
\* language = language || existing?.language || inferLanguage(path)
WrittenFile(files, path, content, language) ==
    LET has == exists(files, path) IN
    [ path     |-> path,
      content  |-> content,
      language |-> IF language # Undef THEN language
                   ELSE IF has /\ files[path].language # Undef
                        THEN files[path].language
                        ELSE inferLanguage(path),
      version  |-> (IF has THEN files[path].version ELSE 0) + 1 ]

\* writeFile that keeps the version of the file it replaces
writeFileNoBump(files, path, content, language) ==
    MapSet(files, path,
           [WrittenFile(files, path, content, language) EXCEPT
              !.version = IF exists(files, path) THEN files[path].version
                          ELSE 1])

\* VirtualFileSystem.writeFile: the store after the write
writeFile(files, path, content, language) ==
    MapSet(files, path, WrittenFile(files, path, content, language))

\* VirtualFileSystem.deleteFile: the store after the delete
deleteFile(files, path) == MapDelete(files, path)

\* the record applyChanges reports for a deleted path
Tombstone(path) ==
    [path |-> path, content |-> "", language |-> Undef, version |-> 0]

\* VirtualFileSystem.applyChanges: the changes in array order; the result is
\* the store and the list of modified files
RECURSIVE applyChangesFrom(_, _, _)
applyChangesFrom(files, modified, changes) ==
    IF changes = <<>> THEN [files |-> files, modified |-> modified]
    ELSE
      LET change == Head(changes)
          rest   == Tail(changes)
      IN
      IF change.type \in {"create", "update"}
      THEN IF change.content # Undef
           THEN LET written == writeFile(files, change.path, change.content,
                                         change.language)
                IN applyChangesFrom(written,
                                    Append(modified, written[change.path]),
                                    rest)
           ELSE applyChangesFrom(files, modified, rest)
      ELSE IF exists(files, change.path)
           THEN applyChangesFrom(deleteFile(files, change.path),
                                 Append(modified, Tombstone(change.path)), rest)
           ELSE applyChangesFrom(files, modified, rest)

applyChanges(files, changes) == applyChangesFrom(files, <<>>, changes)

\* new VirtualFileSystem(initialFiles): files.set(file.path, file) in order
RECURSIVE VfsFromList(_, _)
VfsFromList(files, list) ==
    IF list = <<>> THEN files
    ELSE VfsFromList(MapSet(files, Head(list).path, Head(list)), Tail(list))


(***************************************************************************)
(* AgentState, snapshots and the storage adapter                           *)
(***************************************************************************)
\* StateManager.createEmptyState
createEmptyState ==
    [ files        |-> EmptyFiles,
      messages     |-> <<>>,
      currentPhase |-> "idle",
      history      |-> <<>>,
      version      |-> 1 ]

\* Array.from(state.files.files.entries()): the [path, file] pairs
Entries(files) == {<<p, files[p]>> : p \in DOMAIN files}

\* new Map(entries)
MapOf(entries) ==
    [p \in {e[1] : e \in entries} |-> (CHOOSE e \in entries : e[1] = p)[2]]

\* JSON.parse(JSON.stringify(file)): a copy, field by field
JsonFile(f) ==
    [path |-> f.path, content |-> f.content, language |-> f.language,
     version |-> f.version]

\* JSON.parse(JSON.stringify({...state, files: {files: entries}})): the state
\* with its file map as a list of entries
JsonState(st) ==
    [ files        |-> {<<e[1], JsonFile(e[2])>> : e \in Entries(st.files)},
      messages     |-> [i \in 1..Len(st.messages) |->
                          [role |-> st.messages[i].role,
                           content |-> st.messages[i].content]],
      currentPhase |-> st.currentPhase,
      history      |-> [i \in 1..Len(st.history) |->
                          [phase |-> st.history[i].phase,
                           success |-> st.history[i].success]],
      version      |-> st.version ]

\* the state with the Map restored from the entries
WithMap(json) == [json EXCEPT !.files = MapOf(json.files)]

\* NodeFSAdapter.serializeState
serializeState(st) == JsonState(st)

\* NodeFSAdapter.deserializeState
deserializeState(data) == WithMap(data)

\* the StateSnapshot createSnapshot builds from the live state
SnapshotOf(st) == [state |-> WithMap(JsonState(st)), version |-> st.version]

\* createSnapshot dropping the newest snapshot (pop) in place of the oldest
PushSnapshotPop(snaps, snap) ==
    LET pushed == Append(snaps, snap) IN
    IF Len(pushed) > maxSnapshots THEN SubSeq(pushed, 1, maxSnapshots)
    ELSE pushed

\* createSnapshot: push, then shift when more than maxSnapshots are held
PushSnapshot(snaps, snap) ==
    LET pushed == Append(snaps, snap) IN
    IF Len(pushed) > maxSnapshots THEN Tail(pushed) ELSE pushed

\* rollback falling back to the oldest snapshot when none has the version
FindSnapshotOrOldest(snaps, version) ==
    IF \E i \in 1..Len(snaps) : snaps[i].version = version
    THEN CHOOSE i \in 1..Len(snaps) :
           /\ snaps[i].version = version
           /\ \A j \in 1..(i - 1) : snaps[j].version # version
    ELSE IF snaps = <<>> THEN 0 ELSE 1

\* snapshots.find(s => s.version === version): the index of the first match,
\* 0 when there is none
FindSnapshot(snaps, version) ==
    IF \E i \in 1..Len(snaps) : snaps[i].version = version
    THEN CHOOSE i \in 1..Len(snaps) :
           /\ snaps[i].version = version
           /\ \A j \in 1..(i - 1) : snaps[j].version # version
    ELSE 0

\* StateManager.getAllFiles as a list (the order of the Map's values)
RECURSIVE ListOf(_)
ListOf(files) ==
    IF DOMAIN files = {} THEN <<>>
    ELSE LET p == CHOOSE q \in DOMAIN files : TRUE
         IN <<files[p]>> \o ListOf(MapDelete(files, p))

(***************************************************************************)
(* Inputs                                                                  *)
(***************************************************************************)
Change(type, path, content) ==
    [type |-> type, path |-> path, content |-> content, language |-> Undef]

Changes ==
    { Change("create", "/x.ts", "a"),
      Change("update", "/x.ts", "b"),
      Change("update", "/x.ts", Undef),
      Change("delete", "/x.ts", Undef) }

\* the batches of updateFiles: none, one, or two changes of one path
Batches ==
    {<<>>} \cup {<<c>> : c \in Changes}
      \cup { <<Change("create", "/x.ts", "a"), Change("update", "/x.ts", "b")>>,
             <<Change("create", "/x.ts", "a"), Change("delete", "/x.ts", Undef)>>,
             <<Change("delete", "/x.ts", Undef), Change("create", "/x.ts", "a")>> }

Messages == {[role |-> "user", content |-> "hi"]}

PhaseInputs == {"intent", "error"}

PhaseResults == {[phase |-> "intent", success |-> TRUE]}

SeedFile == [path |-> "/x.ts", content |-> "a", language |-> "typescript",
             version |-> 1]

\* initialize(initialFiles?): no argument, or a list of files
InitialFiles == {[given |-> FALSE, files |-> <<>>],
                 [given |-> TRUE, files |-> <<SeedFile>>]}

\* what an earlier session may have left in storage
EarlierState ==
    [ files        |-> MapSet(EmptyFiles, "/x.ts",
                              [SeedFile EXCEPT !.content = "b", !.version = 2]),
      messages     |-> <<[role |-> "user", content |-> "hi"]>>,
      currentPhase |-> "completed",
      history      |-> <<>>,
      version      |-> 3 ]

(***************************************************************************)
(* PolicyGate                                                              *)
(***************************************************************************)
\* the defaults of the PolicyGate constructor
DefaultMaxFileSize == 1048576
DefaultMaxConcurrentActions == 10

\* the paths Actions name: those of the store and one system path
ActionPaths == Paths \cup {"/etc/x.ts"}

\* new PolicyGate(config): `||` replaces an unset or zero number by the
\* default; an unset option is 0, {} or FALSE here
PolicyGate(options) ==
    [ maxFileSize          |-> IF options.maxFileSize = 0
                               THEN DefaultMaxFileSize
                               ELSE options.maxFileSize,
      allowedFileTypes     |-> options.allowedFileTypes,
      maxConcurrentActions |-> IF options.maxConcurrentActions = 0
                               THEN DefaultMaxConcurrentActions
                               ELSE options.maxConcurrentActions,
      requireConfirmation  |-> options.requireConfirmation ]

Allowed == [allowed |-> TRUE, reason |-> Undef]
Denied(reason) == [allowed |-> FALSE, reason |-> reason]

\* PolicyGate.isUnsafePath on the paths of the model: "/etc/x.ts" is
\* absolute and includes 'etc'
isUnsafePath(path) == path = "/etc/x.ts"

\* a path without a '.'
NoExtension == {"/Makefile"}

\* PolicyGate.getFileExtension: what follows the last '.', or null
getFileExtension(path) == IF path \in NoExtension THEN Undef ELSE Ext(path)

TypeRefusedWithoutExtension(cfg, path) ==
    /\ cfg.allowedFileTypes # {}
    /\ getFileExtension(path) \notin cfg.allowedFileTypes

\* the allowedFileTypes test of validateAction and validateFileChanges:
\* `ext && !allowedFileTypes.includes(ext)`
TypeRefused(cfg, path) ==
    /\ cfg.allowedFileTypes # {}
    /\ getFileExtension(path) # Undef
    /\ getFileExtension(path) \notin cfg.allowedFileTypes

\* PolicyGate.validateAction(action)
validateAction(cfg, action) ==
    IF TypeRefused(cfg, action.path) THEN Denied("File type is not allowed")
    ELSE IF isUnsafePath(action.path) THEN Denied("Unsafe file path detected")
    ELSE Allowed

\* PolicyGate.validatePlan(plan): the count, then the first refused action,
\* then the confirmation
validatePlan(cfg, plan) ==
    LET refused == {i \in 1..Len(plan.actions) :
                      ~validateAction(cfg, plan.actions[i]).allowed}
    IN
    IF Len(plan.actions) > cfg.maxConcurrentActions
    THEN Denied("Plan exceeds maximum concurrent actions")
    ELSE IF refused # {}
    THEN validateAction(cfg, plan.actions[CHOOSE i \in refused :
                                            \A j \in refused : i <= j])
    ELSE IF cfg.requireConfirmation /\ plan.requiresConfirmation
    THEN Denied("Plan requires user confirmation")
    ELSE Allowed

\* the body of the loop of validateFileChanges, for one change
validateFileChange(cfg, change) ==
    IF /\ change.content \notin {Undef, ""}
       /\ Len(change.content) > cfg.maxFileSize
    THEN Denied("File exceeds maximum size")
    ELSE IF TypeRefused(cfg, change.path)
    THEN Denied("File type is not allowed")
    ELSE IF isUnsafePath(change.path) THEN Denied("Unsafe path detected")
    ELSE Allowed

\* PolicyGate.validateFileChanges(changes): the first refused change decides
validateFileChanges(cfg, changes) ==
    LET refused == {i \in 1..Len(changes) :
                      ~validateFileChange(cfg, changes[i]).allowed}
    IN
    IF refused = {} THEN Allowed
    ELSE validateFileChange(cfg, changes[CHOOSE i \in refused :
                                           \A j \in refused : i <= j])

\* AgentOptions.policies: unset, a size limit, or a strict policy
PolicyOptions ==
    { [maxFileSize |-> 0, allowedFileTypes |-> {}, maxConcurrentActions |-> 0,
       requireConfirmation |-> FALSE],
      [maxFileSize |-> 1, allowedFileTypes |-> {}, maxConcurrentActions |-> 0,
       requireConfirmation |-> FALSE],
      [maxFileSize |-> 0, allowedFileTypes |-> {"ts"},
       maxConcurrentActions |-> 2, requireConfirmation |-> TRUE] }

(***************************************************************************)
(* Inputs of the Agent                                                     *)
(***************************************************************************)
\* an ActionPlan of the Actions `shape` (<<type, path>> each); the id of an
\* Action is its position in the plan
Plan(shape, confirm) ==
    [ actions |-> [i \in 1..Len(shape) |->
                     [id |-> i, type |-> shape[i][1], path |-> shape[i][2]]],
      requiresConfirmation |-> confirm ]

PlanShapes ==
    { <<>>,
      << <<"read_file", "/x.ts">> >>,
      << <<"create_file", "/x.ts">> >>,
      << <<"update_file", "/x.ts">> >>,
      << <<"delete_file", "/x.ts">> >>,
      << <<"create_file", "/y.css">> >>,
      << <<"create_file", "/etc/x.ts">> >>,
      << <<"create_file", "/x.ts">>, <<"create_file", "/x.ts">> >>,
      << <<"create_file", "/x.ts">>, <<"update_file", "/x.ts">> >>,
      << <<"delete_file", "/x.ts">>, <<"update_file", "/x.ts">> >>,
      << <<"update_file", "/x.ts">>, <<"read_file", "/x.ts">> >>,
      << <<"delete_file", "/x.ts">>, <<"create_file", "/x.ts">>,
         <<"update_file", "/x.ts">> >>,
      << <<"create_file", "/y.css">>, <<"update_file", "/x.ts">>,
         <<"delete_file", "/x.ts">> >> }

\* the plans the reasoning service answers with
Plans == {Plan(shape, FALSE) : shape \in PlanShapes}
           \cup {Plan(<< <<"create_file", "/x.ts">> >>, TRUE)}

\* the file contents the reasoning service generates
Generated == {"b", "cc"}

\* the query of sendMessage
Query == "hi"

\* an IntentResult; the confidence is in hundredths
Intent(type, confidence, targetFiles, reasoning) ==
    [type |-> type, confidence |-> confidence, targetFiles |-> targetFiles,
     reasoning |-> reasoning]

NoIntent == Intent(Undef, 0, <<>>, Undef)

NoResponse == [phase |-> Undef, success |-> FALSE, filesChanged |-> <<>>,
               content |-> Undef]

NoValidation == [isValid |-> FALSE, summary |-> Undef, errors |-> <<>>]

\* an Agent on which sendMessage is not running
NoRun ==
    [ pc           |-> "new",
      requests     |-> 0,
      plan         |-> Plan(<<>>, FALSE),
      next         |-> 1,
      context      |-> EmptyFiles,
      changes      |-> <<>>,
      filesChanged |-> <<>>,
      errors       |-> <<>>,
      generated    |-> {},
      responseContent |-> Undef,
      intent       |-> NoIntent,
      validation   |-> NoValidation,
      error        |-> Undef,
      response     |-> NoResponse,
      promise      |-> "none",
      stages       |-> <<>>,
      before       |-> [version |-> 0, files |-> EmptyFiles,
                       messages |-> 0],
      events       |-> <<>> ]

(***************************************************************************)
(* Dependency graph (buildDependencyGraph and its import resolution).      *)
(* A string is the sequence of its tokens: "/" and "." are tokens of their *)
(* own, and a run of other characters is one token, so that "/b.ts" is     *)
(* <<"/", "b", ".", "ts">> and string concatenation is \o.                 *)
(***************************************************************************)
\* String.prototype.startsWith, of a one-character prefix
startsWith(s, token) == s # <<>> /\ Head(s) = token

\* String.prototype.lastIndexOf('/'): 0 here where JavaScript answers -1
lastIndexOf(s, token) ==
    LET at == {i \in 1..Len(s) : s[i] = token} IN
    IF at = {} THEN 0 ELSE CHOOSE i \in at : \A j \in at : j <= i

RECURSIVE split(_, _)
\* String.prototype.split('/'): the parts between the separators, the empty
\* ones too
split(s, token) ==
    LET at == {i \in 1..Len(s) : s[i] = token} IN
    IF at = {} THEN <<s>>
    ELSE LET first == CHOOSE i \in at : \A j \in at : i <= j IN
         <<SubSeq(s, 1, first - 1)>>
           \o split(SubSeq(s, first + 1, Len(s)), token)

RECURSIVE join(_, _)
\* Array.prototype.join('/')
join(parts, token) ==
    IF parts = <<>> THEN <<>>
    ELSE IF Len(parts) = 1 THEN parts[1]
    ELSE parts[1] \o <<token>> \o join(Tail(parts), token)

\* isBareModule
isBareModule(specifier) ==
    ~(startsWith(specifier, ".") \/ startsWith(specifier, "/"))

RECURSIVE walk(_, _)
\* the loop of resolveRelativePath over the parts of the specifier
walk(dirParts, parts) ==
    IF parts = <<>> THEN dirParts
    ELSE LET part == Head(parts) IN
         walk(IF part = <<".">> THEN dirParts
              ELSE IF part = <<".", ".">>
              THEN SubSeq(dirParts, 1, Len(dirParts) - 1)
              ELSE Append(dirParts, part),
              Tail(parts))

\* resolveRelativePath
resolveRelativePath(specifier, importerPath) ==
    LET importerDir == SubSeq(importerPath, 1,
                              lastIndexOf(importerPath, "/") - 1)
        dirParts    == SelectSeq(split(importerDir, "/"),
                                 LAMBDA part : part # <<>>)
    IN <<"/">> \o join(walk(dirParts, split(specifier, "/")), "/")

\* no path: the null of resolveImportPath
NotFound == <<>>

\* `extensions` and `indexFiles` of resolveWithExtensions
extensions == << <<".", "ts">>, <<".", "tsx">>, <<".", "js">>, <<".", "jsx">> >>
indexFiles == << <<"/", "index", ".", "ts">>, <<"/", "index", ".", "tsx">>,
                 <<"/", "index", ".", "js">>, <<"/", "index", ".", "jsx">> >>

RECURSIVE firstExisting(_, _, _)
\* `for (const ext of suffixes) if (existingPaths.has(basePath + ext)) return`
firstExisting(basePath, suffixes, existingPaths) ==
    IF suffixes = <<>> THEN NotFound
    ELSE IF basePath \o Head(suffixes) \in existingPaths
    THEN basePath \o Head(suffixes)
    ELSE firstExisting(basePath, Tail(suffixes), existingPaths)

resolveWithExtensionsIndexFirst(basePath, existingPaths) ==
    IF basePath \in existingPaths THEN basePath
    ELSE firstExisting(basePath, indexFiles \o extensions, existingPaths)

\* resolveWithExtensions
resolveWithExtensions(basePath, existingPaths) ==
    IF basePath \in existingPaths THEN basePath
    ELSE firstExisting(basePath, extensions \o indexFiles, existingPaths)

\* resolveImportPath
resolveImportPath(specifier, importerPath, existingPaths) ==
    IF isBareModule(specifier) THEN NotFound
    ELSE IF startsWith(specifier, ".")
    THEN resolveWithExtensions(resolveRelativePath(specifier, importerPath),
                               existingPaths)
    ELSE IF startsWith(specifier, "/")
    THEN resolveWithExtensions(specifier, existingPaths)
    ELSE NotFound

\* a statement of a file's content: what IMPORT_PATTERNS can find in it is
\* its kind ("import", "export", "dynamic", "require"; "text" is matched by
\* no pattern) and the specifier between its quotes
Statement(kind, specifier) == [kind |-> kind, specifier |-> specifier]

\* IMPORT_PATTERNS, in their order
IMPORT_PATTERNS == <<"import", "export", "dynamic", "require">>

\* Set.prototype.add on a Set kept in its order of insertion
add(set, x) ==
    IF \E i \in 1..Len(set) : set[i] = x THEN set ELSE Append(set, x)

RECURSIVE matchAll(_, _, _)
\* the loop over content.matchAll(pattern) of extractImports
matchAll(imports, content, pattern) ==
    IF content = <<>> THEN imports
    ELSE LET specifier == Head(content).specifier IN
         matchAll(IF /\ Head(content).kind = pattern
                     /\ specifier # <<>>
                     /\ ~isBareModule(specifier)
                  THEN add(imports, specifier) ELSE imports,
                  Tail(content), pattern)

RECURSIVE extractImportsFrom(_, _, _)
extractImportsFrom(imports, content, patterns) ==
    IF patterns = <<>> THEN imports
    ELSE extractImportsFrom(matchAll(imports, content, Head(patterns)),
                            content, Tail(patterns))

\* extractImports
extractImports(content) == extractImportsFrom(<<>>, content, IMPORT_PATTERNS)

\* the tokens in the order of their strings
Alphabet == <<".", "/", "a", "b", "index", "js", "jsx", "lib", "react",
              "ts", "tsx">>

rank(token) == CHOOSE i \in 1..Len(Alphabet) : Alphabet[i] = token

RECURSIVE less(_, _)
\* the order of two strings by their code units, which Array.prototype.sort
\* uses
less(p, q) ==
    IF q = <<>> THEN FALSE
    ELSE IF p = <<>> THEN TRUE
    ELSE IF Head(p) = Head(q) THEN less(Tail(p), Tail(q))
    ELSE rank(Head(p)) < rank(Head(q))

\* the array as it is, in the order of the imports
sortNot(paths) == paths

RECURSIVE sort(_)
\* Array.prototype.sort of an array without duplicates
sort(paths) ==
    IF paths = <<>> THEN <<>>
    ELSE LET least == CHOOSE i \in 1..Len(paths) :
                        \A j \in 1..Len(paths) :
                            j = i \/ less(paths[i], paths[j])
         IN <<paths[least]>>
              \o sort(SelectSeq(paths, LAMBDA p : p # paths[least]))

RECURSIVE unique(_)
\* `[...new Set(resolvedDeps)]`
unique(paths) ==
    IF paths = <<>> THEN <<>>
    ELSE add(unique(SubSeq(paths, 1, Len(paths) - 1)), paths[Len(paths)])

resolveAllOneWay(found, imports, file, existingPaths) ==
    LET paths == [i \in 1..Len(imports) |->
                    resolveImportPath(imports[i], file.path, existingPaths)]
    IN [resolvedDeps |->
          found.resolvedDeps
            \o SelectSeq(paths, LAMBDA p : p # NotFound /\ p # file.path),
        dependents   |-> found.dependents]

RECURSIVE resolveAll(_, _, _, _)
\* the loop of buildDependencyGraph over the imports of one file: the
\* resolvedDeps and the dependents after it
resolveAll(found, imports, file, existingPaths) ==
    IF imports = <<>> THEN found
    ELSE LET resolvedPath == resolveImportPath(Head(imports), file.path,
                                               existingPaths)
         IN resolveAll(
              IF resolvedPath # NotFound /\ resolvedPath # file.path
              THEN [resolvedDeps |-> Append(found.resolvedDeps, resolvedPath),
                    dependents   |->
                      [found.dependents EXCEPT
                         ![resolvedPath] = add(@, file.path)]]
              ELSE found,
              Tail(imports), file, existingPaths)

RECURSIVE parseFiles(_, _, _)
\* the loop of buildDependencyGraph over the files
parseFiles(graph, files, existingPaths) ==
    IF files = <<>> THEN graph
    ELSE LET file  == Head(files)
             found == resolveAll([resolvedDeps |-> <<>>,
                                  dependents   |-> graph.dependents],
                                 extractImports(file.content), file,
                                 existingPaths)
         IN parseFiles(
              [dependencies |->
                 [graph.dependencies EXCEPT
                    ![file.path] = sort(unique(found.resolvedDeps))],
               dependents   |-> found.dependents],
              Tail(files), existingPaths)

\* buildDependencyGraph
buildDependencyGraph(files) ==
    LET existingPaths == {files[i].path : i \in 1..Len(files)} IN
    parseFiles([dependencies |-> [p \in existingPaths |-> <<>>],
                dependents   |-> [p \in existingPaths |-> <<>>]],
               files, existingPaths)

(***************************************************************************)
(* EventEmitter                                                            *)
(***************************************************************************)
\* AgentEvent
Events == {"file:create", "file:update", "file:delete", "message:add",
           "stream:start", "stream:chunk", "stream:complete",
           "error", "intent:start", "intent:complete", "plan:start",
           "plan:complete", "execute:start", "execute:complete",
           "validate:start", "validate:complete", "action:start",
           "action:complete", "action:failed", "llm:start", "llm:complete"}

\* a function registered for an event: `name` is its identity, `throws` what
\* a call of it does, and `once` tells the wrappedHandler that once makes
\* of it from the function itself
Handler(name, throws, once) == [name |-> name, throws |-> throws, once |-> once]

\* what the last emit met: the event, the handlers registered for it as emit
\* was called, the handlers it called, and whether it threw
Emitted(event, registered) ==
    [event |-> event, registered |-> registered, called |-> <<>>,
     threw |-> FALSE]

\* `new EventEmitter()`: no listeners (the Set of an event in its order of
\* insertion; no Set is the empty one)
NoListeners == [listeners |-> [e \in Events |-> <<>>],
                emitted   |-> Emitted(Undef, <<>>)]

registered(em, event, handler) ==
    \E i \in 1..Len(em.listeners[event]) : em.listeners[event][i] = handler

\* EventEmitter.on
on(em, event, handler) ==
    IF registered(em, event, handler) THEN em
    ELSE [em EXCEPT !.listeners[event] = Append(@, handler)]

\* EventEmitter.off
off(em, event, handler) ==
    [em EXCEPT !.listeners[event] = SelectSeq(@, LAMBDA h : h # handler)]

\* EventEmitter.once: on of the wrappedHandler
once(em, event, handler) == on(em, event, [handler EXCEPT !.once = TRUE])

\* EventEmitter.removeAllListeners
removeAllListeners(em, event) ==
    IF event = Undef THEN [em EXCEPT !.listeners = [e \in Events |-> <<>>]]
    ELSE [em EXCEPT !.listeners[event] = <<>>]

\* the call of one handler: a wrappedHandler calls its handler and then off
\* of itself, which a throw of the handler skips
called(em, event, handler) ==
    LET invoked == [em EXCEPT !.emitted.called = Append(@, handler)] IN
    IF handler.once /\ ~handler.throws THEN off(invoked, event, handler)
    ELSE invoked

invokeUncaught(em, event, handler) ==
    [called(em, event, handler) EXCEPT !.emitted.threw = handler.throws]

\* the body of the forEach of emit: the call of the handler in try, and the
\* catch that logs the error
invoke(em, event, handler) == called(em, event, handler)

RECURSIVE forEach(_, _, _)
\* handlers.forEach of emit; what a call throws past its catch ends it
forEach(em, event, handlers) ==
    IF handlers = <<>> \/ em.emitted.threw THEN em
    ELSE forEach(invoke(em, event, Head(handlers)), event, Tail(handlers))

\* EventEmitter.emit
emit(em, event) ==
    forEach([em EXCEPT !.emitted = Emitted(event, em.listeners[event])],
            event, em.listeners[event])

RECURSIVE emitAll(_, _)
\* the emits of one step of the Agent, in their order; a throw ends them
emitAll(em, events) ==
    IF events = <<>> THEN em
    ELSE LET first == emit(em, Head(events)) IN
         IF first.emitted.threw THEN first ELSE emitAll(first, Tail(events))

\* the files of the graphs that are built: their paths and their contents
GraphPaths == { <<"/", "a", ".", "ts">>, <<"/", "b", ".", "ts">>,
                <<"/", "lib", "/", "index", ".", "ts">> }

GraphContents ==
    { <<>>,
      <<Statement("import", <<".", "/", "b">>)>>,
      <<Statement("import", <<".", "/", "a">>),
        Statement("import", <<"react">>)>>,
      <<Statement("require", <<".", "/", "lib">>),
        Statement("import", <<".", "/", "b">>),
        Statement("dynamic", <<".", "/", "b", ".", "ts">>)>>,
      <<Statement("export", <<"/", "a">>),
        Statement("text", <<".", "/", "b">>)>>,
      <<Statement("import", <<".", "/", "lib">>),
        Statement("require", <<".", "/", "b">>)>> }

\* files of the virtual file system at a time
MaxFiles == 3

\* getAllFiles(): files of distinct paths, in the order of the Map
GraphFiles ==
    UNION {{files \in [1..n -> [path : GraphPaths, content : GraphContents]] :
              \A i, j \in 1..n : files[i].path = files[j].path => i = j}
           : n \in 0..MaxFiles}

\* the arguments of the calls of resolveImportPath
Specifiers == { <<".", "/", "b">>, <<".", ".", "/", "b">>, <<"/", "b">>,
                <<"react">>, <<".", "/", "b", ".", "ts">>,
                <<".", "/", "c", "/", ".", ".", "/", "b">> }

Importers == { <<"/", "a", ".", "ts">>, <<"/", "b", "/", "a", ".", "ts">> }

KnownPaths ==
    { <<"/", "b">> \o suffix :
        suffix \in {<<>>} \cup {extensions[i] : i \in 1..4}
                     \cup {indexFiles[i] : i \in 1..4} }
      \cup { <<"/", "a", ".", "ts">>, <<"/", "b", "/", "b", ".", "ts">> }

NoGraph == [dependencies |-> <<>>, dependents |-> <<>>]

\* a call and its result
Question(kind, specifier, importerPath, existingPaths, files) ==
    [kind |-> kind, specifier |-> specifier, importerPath |-> importerPath,
     existingPaths |-> existingPaths, files |-> files, returned |-> FALSE,
     resolved |-> NotFound, graph |-> NoGraph]

NoQuestion == Question("none", <<>>, <<>>, {}, <<>>)

\* the Actions of the longest plan that is validated
MaxActions == 21

\* the paths that are validated: those of the store and one without extension
GatePaths == Paths \cup NoExtension

\* plans of up to MaxActions Actions of one safe path each
GatePlans ==
    {Plan([i \in 1..n |-> <<"create_file", path>>], FALSE) :
        n \in 0..MaxActions, path \in GatePaths}

GateChanges ==
    {<<>>} \cup {<<Change("create", path, "a")>> : path \in GatePaths}

\* a call of the PolicyGate and its result
Call(kind, plan, changes) ==
    [kind |-> kind, plan |-> plan, changes |-> changes, returned |-> FALSE,
     result |-> Allowed]

NoCall == Call("none", Plan(<<>>, FALSE), <<>>)

\* the chunks of the longest answer of a streaming provider
MaxFragments == 3

\* chunk.delta: text as the sequence of its characters
Fragments == {<<>>, <<"a">>, <<"b", "c">>}

\* what `for await (const chunk of stream)` is given, in its order
Deliveries == UNION {[1..n -> Fragments] : n \in 0..MaxFragments}

\* the data of an emitted event that the call decides
Event(event, delta, accumulated, content) ==
    [event |-> event, delta |-> delta, accumulated |-> accumulated,
     content |-> content]

\* a call of callLLM on a provider (streamingEnabled; whether it has a
\* stream method; the chunks its answer comes in; whether it throws after
\* them), the position of the call, its locals and what it returned
LLMCall(streamingEnabled, hasStream, chunks, throws) ==
    [streamingEnabled |-> streamingEnabled, hasStream |-> hasStream,
     chunks |-> chunks, throws |-> throws, pc |-> "called", consumed |-> 0,
     fullContent |-> <<>>, events |-> <<>>, content |-> <<>>]

NoStream == [LLMCall(FALSE, FALSE, <<>>, FALSE) EXCEPT !.pc = "none"]

VARIABLES
    state,        \* StateManager.state
    vfs,          \* StateManager.vfs (the Map of the VirtualFileSystem)
    snapshots,    \* StateManager.snapshots
    autoSave,     \* StateManager.autoSave
    stored,       \* what the adapter holds: <<>> or <<serialized state>>
    pc,           \* "idle", or "inTx" while transaction awaits fn
    txSnapshot,   \* the local `snapshot` of the running transaction
    tx,           \* ghost: state, store and storage as transaction was called
    initialized,  \* ghost: initialize has been called on this instance
    taken,        \* ghost: version tags of the snapshots taken since clear
    writes,       \* ghost: per path, the writes since it was last absent
                  \* and whether it was ever deleted
    last,         \* the last operation, its input and its outcome
    steps,        \* operations so far
    config,       \* PolicyGate.config
    run,          \* Agent.initialized, and the position and the locals of
                  \* the running sendMessage (responseContent: what kind
                  \* of text the reasoning service answered to the stage)
    emitter,      \* EventEmitter.listeners, and what the last emit met
    resolver,     \* a call of resolveImportPath or of buildDependencyGraph:
                  \* its arguments and, once it returned, its result
    gate,         \* a call of the PolicyGate: its argument and, once it
                  \* returned, its result
    stream        \* a call of BasePhase.callLLM: the provider, the position
                  \* and the locals of the call, and the events it emitted

vars == <<state, vfs, snapshots, autoSave, stored, pc, txSnapshot, tx,
          initialized, taken, writes, last, steps, config, run, emitter,
          resolver, gate, stream>>

NoArg == [version |-> 0, changes |-> <<>>, phase |-> Undef, path |-> Undef,
          fn |-> Undef]

Last(op, result, saveFailed, arg) ==
    [op |-> op, result |-> result, saveFailed |-> saveFailed, arg |-> arg]

NoTx == [state |-> createEmptyState, vfs |-> EmptyFiles, stored |-> <<>>,
         mutated |-> FALSE]

Init ==
    /\ state = createEmptyState
    /\ vfs = EmptyFiles
    /\ snapshots = <<>>
    /\ autoSave \in BOOLEAN
    /\ stored \in {<<>>, <<serializeState(EarlierState)>>}
    /\ pc = "idle"
    /\ txSnapshot = <<>>
    /\ tx = NoTx
    /\ initialized = FALSE
    /\ taken = {}
    /\ writes = [p \in Paths |-> [n |-> 0, deleted |-> FALSE]]
    /\ last = Last("new", "ok", FALSE, NoArg)
    /\ steps = 0
    /\ config = PolicyGate([maxFileSize |-> 0, allowedFileTypes |-> {},
                            maxConcurrentActions |-> 0,
                            requireConfirmation |-> FALSE])
    /\ run = NoRun
    /\ emitter = NoListeners
    /\ resolver = NoQuestion
    /\ gate = NoCall
    /\ stream = NoStream

(***************************************************************************)
(* StateManager                                                            *)
(***************************************************************************)
\* the outcomes of adapter.save: it returns (TRUE) or throws (FALSE); it is
\* only called when autoSave is set
SaveOutcomes == IF autoSave THEN BOOLEAN ELSE {TRUE}

\* StateManager.persist through NodeFSAdapter.save: the file is replaced when
\* the save returns and left as it was when it throws
persist(st, ok) == IF ok THEN <<serializeState(st)>> ELSE stored

\* `if (this.autoSave) await this.persist()` on state st
AutoSaved(st, ok) == IF autoSave THEN persist(st, ok) ELSE stored

\* restoreSnapshot without the call of vfs.restoreState
restoreSnapshotStateOnly(snapshot) ==
    [state |-> snapshot.state, vfs |-> vfs]

\* restoreSnapshot with a restoreState that merges into the store
restoreSnapshotMerging(snapshot) ==
    [state |-> snapshot.state,
     vfs |-> [p \in (DOMAIN vfs) \cup (DOMAIN snapshot.state.files) |->
                IF p \in DOMAIN snapshot.state.files
                THEN snapshot.state.files[p] ELSE vfs[p]]]

\* restoreSnapshot keeping the live version
restoreSnapshotKeepingVersion(snapshot) ==
    [state |-> [snapshot.state EXCEPT !.version = state.version],
     vfs |-> snapshot.state.files]

\* StateManager.restoreSnapshot: the live state is the snapshot's state and
\* the store is rebuilt from the snapshot's file map
restoreSnapshot(snapshot) ==
    [state |-> snapshot.state, vfs |-> snapshot.state.files]

\* updateFiles counting a version only for a batch that changed the store
UpdatedStateWhenChanged(st, files) ==
    [st EXCEPT !.files = files,
               !.version = IF files = st.files THEN st.version
                           ELSE st.version + 1]

\* the live state after updateFiles applied `changes`
UpdatedState(st, files) ==
    [st EXCEPT !.files = files, !.version = st.version + 1]

\* StateManager.initialize(initialFiles)
Initialize(init) ==
    \E ok \in SaveOutcomes :
      LET seeded   == VfsFromList(EmptyFiles, init.files)
          loaded   == deserializeState(stored[1])
          st       == IF stored # <<>> THEN loaded
                      ELSE IF init.given THEN [state EXCEPT !.files = seeded]
                      ELSE state
          files    == IF stored # <<>> THEN VfsFromList(EmptyFiles, ListOf(loaded.files))
                      ELSE IF init.given THEN seeded
                      ELSE vfs
          saves    == stored = <<>> /\ init.given /\ autoSave
          thrown   == saves /\ ~ok
      IN
      /\ (saves \/ ok)
      /\ state' = st
      /\ vfs' = files
      /\ stored' = IF saves THEN persist(st, ok) ELSE stored
      /\ snapshots' = IF thrown THEN snapshots
                      ELSE PushSnapshot(snapshots, SnapshotOf(st))
      /\ taken' = IF thrown THEN taken ELSE taken \cup {st.version}
      /\ initialized' = TRUE
      /\ last' = Last("initialize", IF thrown THEN "throw" ELSE "ok", thrown,
                      NoArg)
      /\ UNCHANGED <<autoSave, pc, txSnapshot, tx, writes>>

\* updateFiles writing into the object of the live state, which after a
\* rollback is the state object of the restored snapshot
UpdateFilesInPlace(changes) ==
    \E ok \in SaveOutcomes :
      LET applied == applyChanges(vfs, changes)
          st      == UpdatedState(state, applied.files)
          shared  == IF last.op = "rollback" /\ last.result # "false"
                     THEN FindSnapshot(snapshots, last.arg.version) ELSE 0
      IN
      /\ vfs' = applied.files
      /\ state' = st
      /\ stored' = AutoSaved(st, ok)
      /\ snapshots' = [i \in DOMAIN snapshots |->
                         IF i = shared THEN [snapshots[i] EXCEPT !.state = st]
                         ELSE snapshots[i]]
      /\ tx' = IF pc = "inTx" THEN [tx EXCEPT !.mutated = TRUE] ELSE tx
      /\ last' = Last("updateFiles", IF ok THEN "ok" ELSE "throw", ~ok,
                      [NoArg EXCEPT !.changes = changes])
      /\ UNCHANGED <<autoSave, pc, txSnapshot, initialized, taken, writes>>

\* StateManager.updateFiles(changes)
UpdateFiles(changes) ==
    \E ok \in SaveOutcomes :
      LET applied == applyChanges(vfs, changes)
          st      == UpdatedState(state, applied.files)
      IN
      /\ vfs' = applied.files
      /\ state' = st
      /\ stored' = AutoSaved(st, ok)
      /\ tx' = IF pc = "inTx" THEN [tx EXCEPT !.mutated = TRUE] ELSE tx
      /\ last' = Last("updateFiles", IF ok THEN "ok" ELSE "throw", ~ok,
                      [NoArg EXCEPT !.changes = changes])
      /\ UNCHANGED <<snapshots, autoSave, pc, txSnapshot, initialized, taken,
                     writes>>

AddMessageFirst(message) ==
    \E ok \in SaveOutcomes :
      LET st == [state EXCEPT !.messages = <<message>> \o state.messages] IN
      /\ state' = st
      /\ stored' = AutoSaved(st, ok)
      /\ last' = Last("addMessage", IF ok THEN "ok" ELSE "throw", ~ok, NoArg)
      /\ UNCHANGED <<vfs, snapshots, autoSave, pc, txSnapshot, tx, initialized,
                     taken, writes>>

\* StateManager.addMessage(message)
AddMessage(message) ==
    \E ok \in SaveOutcomes :
      LET st == [state EXCEPT !.messages = Append(state.messages, message)] IN
      /\ state' = st
      /\ stored' = AutoSaved(st, ok)
      /\ last' = Last("addMessage", IF ok THEN "ok" ELSE "throw", ~ok, NoArg)
      /\ UNCHANGED <<vfs, snapshots, autoSave, pc, txSnapshot, tx, initialized,
                     taken, writes>>

\* StateManager.setPhase(phase)
SetPhase(phase) ==
    \E ok \in SaveOutcomes :
      LET st == [state EXCEPT !.currentPhase = phase] IN
      /\ state' = st
      /\ stored' = AutoSaved(st, ok)
      /\ last' = Last("setPhase", IF ok THEN "ok" ELSE "throw", ~ok,
                      [NoArg EXCEPT !.phase = phase])
      /\ UNCHANGED <<vfs, snapshots, autoSave, pc, txSnapshot, tx, initialized,
                     taken, writes>>

\* StateManager.addPhaseResult(result)
AddPhaseResult(result) ==
    \E ok \in SaveOutcomes :
      LET st == [state EXCEPT !.history = Append(state.history, result)] IN
      /\ state' = st
      /\ stored' = AutoSaved(st, ok)
      /\ last' = Last("addPhaseResult", IF ok THEN "ok" ELSE "throw", ~ok, NoArg)
      /\ UNCHANGED <<vfs, snapshots, autoSave, pc, txSnapshot, tx, initialized,
                     taken, writes>>

\* StateManager.createSnapshot()
CreateSnapshot ==
    /\ snapshots' = PushSnapshot(snapshots, SnapshotOf(state))
    /\ taken' = taken \cup {state.version}
    /\ last' = Last("createSnapshot", "ok", FALSE, NoArg)
    /\ UNCHANGED <<state, vfs, autoSave, stored, pc, txSnapshot, tx,
                   initialized, writes>>

\* StateManager.transaction(fn), up to the call of fn: the snapshot is taken
\* and fn runs; what fn does are the manager's operations that follow
TransactionBegin ==
    /\ pc = "idle"
    /\ pc' = "inTx"
    /\ snapshots' = PushSnapshot(snapshots, SnapshotOf(state))
    /\ taken' = taken \cup {state.version}
    /\ txSnapshot' = <<SnapshotOf(state)>>
    /\ tx' = [state |-> state, vfs |-> vfs, stored |-> stored,
              mutated |-> FALSE]
    /\ last' = Last("transactionBegin", "ok", FALSE, NoArg)
    /\ UNCHANGED <<state, vfs, autoSave, stored, initialized, writes>>

\* transaction with the persist after the try block: a save that throws
\* leaves what fn did in the live state
TransactionReturnKeeping ==
    \E ok \in SaveOutcomes :
      /\ pc = "inTx"
      /\ pc' = "idle"
      /\ stored' = AutoSaved(state, ok)
      /\ txSnapshot' = <<>>
      /\ last' = Last("transaction", IF ok THEN "ok" ELSE "throw", ~ok,
                      [NoArg EXCEPT !.fn = "returned"])
      /\ UNCHANGED <<state, vfs, snapshots, autoSave, tx, initialized, taken,
                     writes>>

\* StateManager.transaction(fn), fn returned: persist when autoSave; a save
\* that throws is caught like a throw of fn: the snapshot is restored
TransactionReturn ==
    \E ok \in SaveOutcomes :
      LET restored == restoreSnapshot(txSnapshot[1]) IN
      /\ pc = "inTx"
      /\ pc' = "idle"
      /\ state' = IF ok THEN state ELSE restored.state
      /\ vfs' = IF ok THEN vfs ELSE restored.vfs
      /\ stored' = AutoSaved(state, ok)
      /\ txSnapshot' = <<>>
      /\ last' = Last("transaction", IF ok THEN "ok" ELSE "throw", ~ok,
                      [NoArg EXCEPT !.fn = "returned"])
      /\ UNCHANGED <<snapshots, autoSave, tx, initialized, taken, writes>>

\* StateManager.transaction(fn), fn threw: the snapshot is restored and the
\* error thrown on
TransactionThrow ==
    LET restored == restoreSnapshot(txSnapshot[1]) IN
    /\ pc = "inTx"
    /\ pc' = "idle"
    /\ state' = restored.state
    /\ vfs' = restored.vfs
    /\ txSnapshot' = <<>>
    /\ last' = Last("transaction", "throw", FALSE,
                    [NoArg EXCEPT !.fn = "threw"])
    /\ UNCHANGED <<snapshots, autoSave, stored, tx, initialized, taken, writes>>

\* StateManager.rollback(version)
Rollback(version) ==
    \E ok \in SaveOutcomes :
      LET i        == FindSnapshot(snapshots, version)
          restored == restoreSnapshot(snapshots[i])
      IN
      /\ (i # 0 \/ ok)
      /\ state' = IF i # 0 THEN restored.state ELSE state
      /\ vfs' = IF i # 0 THEN restored.vfs ELSE vfs
      /\ stored' = IF i # 0 THEN AutoSaved(restored.state, ok) ELSE stored
      /\ last' = Last("rollback",
                      IF i = 0 THEN "false" ELSE IF ok THEN "true" ELSE "throw",
                      i # 0 /\ ~ok, [NoArg EXCEPT !.version = version])
      /\ UNCHANGED <<snapshots, autoSave, pc, txSnapshot, tx, initialized,
                     taken, writes>>

\* StateManager.persist()
Persist ==
    \E ok \in BOOLEAN :
      /\ stored' = persist(state, ok)
      /\ last' = Last("persist", IF ok THEN "ok" ELSE "throw", ~ok, NoArg)
      /\ UNCHANGED <<state, vfs, snapshots, autoSave, pc, txSnapshot, tx,
                     initialized, taken, writes>>

ClearKeepingSnapshots ==
    /\ state' = createEmptyState
    /\ vfs' = EmptyFiles
    /\ stored' = <<>>
    /\ taken' = {}
    /\ last' = Last("clear", "ok", FALSE, NoArg)
    /\ UNCHANGED <<snapshots, autoSave, pc, txSnapshot, tx, initialized,
                   writes>>

\* StateManager.clear()
Clear ==
    /\ state' = createEmptyState
    /\ vfs' = EmptyFiles
    /\ snapshots' = <<>>
    /\ stored' = <<>>
    /\ taken' = {}
    /\ last' = Last("clear", "ok", FALSE, NoArg)
    /\ UNCHANGED <<autoSave, pc, txSnapshot, tx, initialized, writes>>

\* the versions rollback is asked for: 0 (never a version) up to one past
\* the live version
Versions == 0..(state.version + 1)

\* one more operation of a run of at most MaxSteps operations, called on the
\* StateManager directly
Tick ==
    /\ steps < MaxSteps
    /\ steps' = steps + 1
    /\ UNCHANGED <<config, run, emitter, resolver, gate, stream>>

Next ==
    \/ Tick /\ \E init \in InitialFiles : Initialize(init)
    \/ Tick /\ \E changes \in Batches : UpdateFiles(changes)
    \/ Tick /\ \E message \in Messages : AddMessage(message)
    \/ Tick /\ \E phase \in PhaseInputs : SetPhase(phase)
    \/ Tick /\ \E result \in PhaseResults : AddPhaseResult(result)
    \/ Tick /\ CreateSnapshot
    \/ Tick /\ TransactionBegin
    \/ Tick /\ TransactionReturn
    \/ Tick /\ TransactionThrow
    \/ Tick /\ \E version \in Versions : Rollback(version)
    \/ Tick /\ Persist
    \/ Tick /\ Clear

Spec == Init /\ [][Next]_vars

(***************************************************************************)
(* SpecFifo: the snapshot list beyond maxSnapshots. Runs are not bounded in *)
(* length; State.version is bounded instead.                               *)
(***************************************************************************)
NoTick == UNCHANGED <<steps, config, run, emitter, resolver, gate, stream>>

\* SpecFifo mutates through two batches, and rolls back only to versions of
\* which no snapshot is retained
FifoBatches == {<<>>, <<Change("create", "/x.ts", "a")>>}

NotRetained ==
    {v \in Versions : \A i \in 1..Len(snapshots) : snapshots[i].version # v}

NextFifo ==
    \/ NoTick /\ CreateSnapshot
    \/ NoTick /\ state.version < MaxFifoVersion
              /\ \E changes \in FifoBatches : UpdateFiles(changes)
    \/ NoTick /\ \E version \in NotRetained : Rollback(version)
    \/ NoTick /\ Clear

SpecFifo == Init /\ [][NextFifo]_vars

(***************************************************************************)
(* SpecMessages: the message list, with messages that differ               *)
(***************************************************************************)
Dialogue == {[role |-> "user", content |-> "hi"],
             [role |-> "assistant", content |-> "done"]}

NextMessages ==
    \/ Tick /\ \E init \in InitialFiles : Initialize(init)
    \/ Tick /\ \E changes \in FifoBatches : UpdateFiles(changes)
    \/ Tick /\ \E message \in Dialogue : AddMessage(message)
    \/ Tick /\ \E phase \in PhaseInputs : SetPhase(phase)
    \/ Tick /\ \E result \in PhaseResults : AddPhaseResult(result)
    \/ Tick /\ CreateSnapshot

SpecMessages == Init /\ [][NextMessages]_vars

(***************************************************************************)
(* SpecVfs: the VirtualFileSystem on its own, by writeFile and deleteFile   *)
(***************************************************************************)
VfsLanguages == {Undef, "json"}

\* VirtualFileSystem.writeFile(path, content, language)
VfsWrite ==
    \E path \in Paths, content \in Contents, language \in VfsLanguages :
      /\ writes[path].n < MaxWrites
      /\ vfs' = writeFile(vfs, path, content, language)
      /\ writes' = [writes EXCEPT ![path].n = @ + 1]
      /\ last' = Last("writeFile", "ok", FALSE, [NoArg EXCEPT !.path = path])
      /\ UNCHANGED <<state, snapshots, autoSave, stored, pc, txSnapshot, tx,
                     initialized, taken, steps, config, run,
                     emitter, resolver, gate, stream>>

\* VirtualFileSystem.deleteFile(path): the result is whether the path existed
VfsDelete ==
    \E path \in Paths :
      /\ vfs' = deleteFile(vfs, path)
      /\ writes' = [writes EXCEPT ![path] = [n |-> 0, deleted |-> TRUE]]
      /\ last' = Last("deleteFile",
                      IF exists(vfs, path) THEN "true" ELSE "false", FALSE,
                      [NoArg EXCEPT !.path = path])
      /\ UNCHANGED <<state, snapshots, autoSave, stored, pc, txSnapshot, tx,
                     initialized, taken, steps, config, run,
                     emitter, resolver, gate, stream>>

NextVfs == VfsWrite \/ VfsDelete

SpecVfs == Init /\ [][NextVfs]_vars

(***************************************************************************)
(* Phases: the reasoning service answers, the phases parse and check       *)
(***************************************************************************)
\* llmProvider.complete throws
Thrown == "<thrown>"

\* an error string: `Policy violation for ${path}: ${message}`,
\* `Action ${id} failed: ${message}`, or a bare message
Failure(kind, id, path, message) ==
    [kind |-> kind, id |-> id, path |-> path, message |-> message]

\* ExecutePhase.executeCreateFile(action, context) when the reasoning service
\* answers `answer`
executeCreateFile(action, context, answer) ==
    IF exists(context, action.path)
    THEN [threw |-> TRUE, message |-> "File already exists", called |-> FALSE,
          changes |-> <<>>]
    ELSE IF answer = Thrown
    THEN [threw |-> TRUE, message |-> Thrown, called |-> TRUE, changes |-> <<>>]
    ELSE [threw |-> FALSE, message |-> Undef, called |-> TRUE,
          changes |-> <<[type |-> "create", path |-> action.path,
                         content |-> answer,
                         language |-> inferLanguage(action.path)]>>]

\* ExecutePhase.executeUpdateFile(action, context)
executeUpdateFile(action, context, answer) ==
    IF ~exists(context, action.path)
    THEN [threw |-> TRUE, message |-> "File not found", called |-> FALSE,
          changes |-> <<>>]
    ELSE IF answer = Thrown
    THEN [threw |-> TRUE, message |-> Thrown, called |-> TRUE, changes |-> <<>>]
    ELSE [threw |-> FALSE, message |-> Undef, called |-> TRUE,
          changes |-> <<[type |-> "update", path |-> action.path,
                         content |-> answer,
                         language |-> context[action.path].language]>>]

\* ExecutePhase.executeDeleteFile(action)
executeDeleteFile(action) ==
    [threw |-> FALSE, message |-> Undef, called |-> FALSE,
     changes |-> <<Change("delete", action.path, Undef)>>]

\* ExecutePhase.executeAction(action, context)
executeAction(action, context, answer) ==
    CASE action.type = "create_file" -> executeCreateFile(action, context, answer)
      [] action.type = "update_file" -> executeUpdateFile(action, context, answer)
      [] action.type = "delete_file" -> executeDeleteFile(action)
      [] action.type = "read_file" ->
           [threw |-> FALSE, message |-> Undef, called |-> FALSE,
            changes |-> <<>>]

\* what the reasoning service answers in the plan stage: it throws, answers
\* text that is no JSON, JSON that is no ActionPlan, or a plan
PlanAnswers ==
    {[kind |-> k, plan |-> Plan(<<>>, FALSE)] :
        k \in {Thrown, "unparseable", "mismatch"}}
      \cup {[kind |-> "plan", plan |-> p] : p \in Plans}

\* PlanPhase.createPlan: the plan, or the error it throws
createPlan(cfg, answer) ==
    IF answer.kind = Thrown
    THEN [threw |-> TRUE, message |-> "Planning failed: <thrown>"]
    ELSE IF answer.kind \in {"unparseable", "mismatch"}
    THEN [threw |-> TRUE, message |-> "Planning failed: Failed to parse plan"]
    ELSE IF ~validatePlan(cfg, answer.plan).allowed
    THEN [threw |-> TRUE, message |-> "Planning failed: Policy violation"]
    ELSE [threw |-> FALSE, message |-> Undef]

\* what the reasoning service answers in the validate stage
ValidateAnswers ==
    {[kind |-> k, isValid |-> FALSE, errors |-> <<>>] :
        k \in {Thrown, "unparseable", "mismatch"}}
      \cup {[kind |-> "result", isValid |-> TRUE, errors |-> <<>>],
            [kind |-> "result", isValid |-> FALSE,
             errors |-> <<[code |-> "INTENT_MISMATCH",
                           message |-> Failure("validation", 0, Undef,
                                               "mismatch")]>>]}

\* ValidatePhase.parseValidationResponse: the parsed result, or the fallback
parseValidationResponse(answer) ==
    IF answer.kind = "result"
    THEN [isValid |-> answer.isValid, summary |-> "summary",
          errors |-> answer.errors]
    ELSE [isValid |-> TRUE, summary |-> "Validation Response Parsing Issue",
          errors |-> <<>>]

\* ValidatePhase.validate(execution, intent), execution.errors being `errors`
validate(errors, answer) ==
    LET validationResult == parseValidationResponse(answer) IN
    IF answer.kind = Thrown
    THEN [isValid |-> FALSE, summary |-> "Validation Failed",
          errors |-> <<[code |-> "VALIDATION_ERROR",
                        message |-> Failure("validation", 0, Undef, Thrown)]>>]
    ELSE IF errors # <<>>
    THEN [isValid |-> FALSE, summary |-> "Execution Errors Detected",
          errors |-> validationResult.errors
                       \o [i \in 1..Len(errors) |->
                             [code |-> "EXECUTION_ERROR", message |-> errors[i]]]]
    ELSE validationResult

(***************************************************************************)
(* Agent                                                                   *)
(***************************************************************************)
\* sendMessage calls of one run of SpecAgent
MaxRequests == 1

\* the StateManager, which an Agent step that calls no operation of it
\* leaves alone
managed == <<state, vfs, snapshots, autoSave, stored, pc, txSnapshot, tx,
             initialized, taken, writes, last>>

\* the call of the StateManager made in this step threw
Threw == last'.result = "throw"

\* an exception reaches the catch of sendMessage
Caught(message) == [run EXCEPT !.pc = "catch", !.error = message]

\* the error of a listener that emit let through
ListenerThrew == "listener threw"

\* the events of callLLMWithoutStreaming, whose provider answered or threw
llm(answered) ==
    IF answered THEN <<"llm:start", "llm:complete">> ELSE <<"llm:start">>

\* one of the emits of a step throws
Throws(events) == events # <<>> /\ emitAll(emitter, events).emitted.threw

\* events as they were emitted: each with State.version at its emit
Seen(events, version) ==
    [i \in 1..Len(events) |-> [event |-> events[i], version |-> version]]

\* the emits of a step all made before its call of the StateManager
EmitAhead(before, after, r) ==
    /\ emitter' = emitAll(emitter, before \o after)
    /\ run' = IF Throws(before \o after)
              THEN [r EXCEPT !.pc = "catch", !.error = ListenerThrew]
              ELSE [r EXCEPT !.events = @ \o Seen(before \o after,
                                                  state.version)]

\* the emits of a step of sendMessage, which leaves the locals `r`: those
\* before the step's call of the StateManager and those after it. What an
\* emit throws is taken to the catch
EmitAround(before, after, r) ==
    /\ emitter' = emitAll(emitter, before \o after)
    /\ run' = IF Throws(before \o after)
              THEN [r EXCEPT !.pc = "catch", !.error = ListenerThrew]
              ELSE [r EXCEPT !.events = @ \o Seen(before, state.version)
                                          \o Seen(after, state'.version)]

\* the emits of a step that makes no call that changes State.version
Emit(events, r) ==
    /\ emitter' = emitAll(emitter, events)
    /\ run' = IF Throws(events)
              THEN [r EXCEPT !.pc = "catch", !.error = ListenerThrew]
              ELSE [r EXCEPT !.events = @ \o Seen(events, state.version)]

\* Agent.setPhase(phase) as a step of sendMessage: on to `pc`, or to the catch
Enter(phase, to) ==
    /\ SetPhase(phase)
    /\ run' = [(IF Threw THEN Caught("save failed")
                ELSE [run EXCEPT !.pc = to])
                 EXCEPT !.stages = Append(run.stages, phase)]
    /\ UNCHANGED <<steps, config, emitter, resolver, gate, stream>>

\* Agent.initialize()
AgentInitialize ==
    /\ run.pc = "new"
    /\ \E init \in InitialFiles : Initialize(init)
    /\ run' = [run EXCEPT !.pc = IF Threw THEN "new" ELSE "ready"]
    /\ UNCHANGED <<steps, config, emitter, resolver, gate, stream>>

\* Agent.sendMessage(query), to its first await
SendMessage ==
    /\ run.pc = "ready"
    /\ run.requests < MaxRequests
    /\ AddMessage([role |-> "user", content |-> Query])
    /\ Emit(IF Threw THEN <<>> ELSE <<"message:add">>,
            [NoRun EXCEPT
               !.pc = IF Threw THEN "catch" ELSE "intent",
               !.error = IF Threw THEN "save failed" ELSE Undef,
               !.requests = run.requests + 1,
               !.promise = "pending",
               !.before = [version |-> state.version, files |-> vfs,
                           messages |-> Len(state.messages)]])
    /\ UNCHANGED <<steps, config, resolver, gate, stream>>

\* the intent the reasoning service means to answer
GivenIntent == Intent("modify", 90, <<"/x.ts">>, "reasoning")

\* what the reasoning service answers in the intent stage: it throws; or it
\* answers the intent as JSON, text that is no JSON, JSON that is no
\* IntentResult, or JSON of an intent that quotes a fenced block (the text
\* inside the fence is no JSON, the whole text is)
IntentAnswers ==
    {[kind |-> k, intent |-> GivenIntent] :
        k \in {Thrown, "json", "unparseable", "mismatch", "quoting"}}

\* the answers that are the intent as JSON, and the throw
PlainIntentAnswers == {a \in IntentAnswers : a.kind \in {Thrown, "json"}}

parseIntentResponseAsModify(answer) ==
    IF answer.kind \in {"json", "quoting"} THEN answer.intent
    ELSE Intent("modify", 50, <<>>, "Failed to parse LLM response")

\* IntentPhase.parseIntentResponse: the parsed intent (at the first or at
\* the second JSON.parse), or the default query intent
parseIntentResponse(answer) ==
    IF answer.kind \in {"json", "quoting"} THEN answer.intent
    ELSE Intent("query", 50, <<>>, "Failed to parse LLM response")

\* runIntentPhase: setPhase('intent')
IntentSetPhase == run.pc = "intent" /\ Enter("intent", "analyze")

\* runIntentPhase: intentPhase.analyze, then addPhaseResult; the reasoning
\* service answers one of `answers`
Analyze(answers) ==
    /\ run.pc = "analyze"
    /\ \E answer \in answers :
         IF answer.kind = Thrown
         THEN /\ Emit(<<"intent:start">> \o llm(FALSE),
                      [Caught("Intent analysis failed")
                         EXCEPT !.responseContent = answer.kind])
              /\ UNCHANGED managed
         ELSE /\ AddPhaseResult([phase |-> "intent", success |-> TRUE])
              /\ Emit(<<"intent:start">> \o llm(TRUE)
                        \o <<"intent:complete">>,
                      [(IF Threw THEN Caught("save failed")
                        ELSE [run EXCEPT !.pc = "planning"])
                         EXCEPT !.responseContent = answer.kind,
                                !.intent = parseIntentResponse(answer)])
    /\ UNCHANGED <<steps, config, resolver, gate, stream>>

\* runPlanningPhase: setPhase('planning')
PlanSetPhase == run.pc = "planning" /\ Enter("planning", "createPlan")

\* runPlanningPhase: planPhase.createPlan, then addPhaseResult
CreatePlan ==
    /\ run.pc = "createPlan"
    /\ \E answer \in PlanAnswers :
         LET result == createPlan(config, answer) IN
         IF result.threw
         THEN /\ Emit(<<"plan:start">> \o llm(answer.kind # Thrown),
                      [Caught(result.message)
                         EXCEPT !.responseContent = answer.kind])
              /\ UNCHANGED managed
         ELSE /\ AddPhaseResult([phase |-> "planning", success |-> TRUE])
              /\ Emit(<<"plan:start">> \o llm(TRUE) \o <<"plan:complete">>,
                      [(IF Threw THEN Caught("save failed")
                        ELSE [run EXCEPT !.pc = "executing",
                                         !.plan = answer.plan])
                         EXCEPT !.responseContent = answer.kind])
    /\ UNCHANGED <<steps, config, resolver, gate, stream>>

\* runExecutionPhase: setPhase('executing'), then buildPhaseContext: the
\* context holds the files of this moment for the whole stage
ExecuteSetPhase ==
    /\ run.pc = "executing"
    /\ SetPhase("executing")
    /\ Emit(IF Threw THEN <<>> ELSE <<"execute:start">>,
            [(IF Threw THEN Caught("save failed")
              ELSE [run EXCEPT !.pc = "action", !.next = 1,
                               !.context = state.files])
               EXCEPT !.stages = Append(run.stages, "executing")])
    /\ UNCHANGED <<steps, config, resolver, gate, stream>>

RECURSIVE Track(_, _)
\* `if (!filesChanged.includes(change.path)) filesChanged.push(change.path)`
\* for each change
Track(filesChanged, changes) ==
    IF changes = <<>> THEN filesChanged
    ELSE Track(IF \E i \in 1..Len(filesChanged) :
                    filesChanged[i] = Head(changes).path
               THEN filesChanged
               ELSE Append(filesChanged, Head(changes).path),
               Tail(changes))

\* `file:${change.type}` of each change, in the onFileChange of
\* runExecutionPhase
fileEvents(changes) ==
    [i \in 1..Len(changes) |->
        CASE changes[i].type = "create" -> "file:create"
          [] changes[i].type = "update" -> "file:update"
          [] changes[i].type = "delete" -> "file:delete"]

RefusedNever(policyResult) == FALSE

\* `if (!policyResult.allowed)` in the loop of execute
Refused(policyResult) == ~policyResult.allowed

ExecuteActionDeferring ==
    /\ run.pc = "action"
    /\ run.next <= Len(run.plan.actions)
    /\ \E answer \in Generated \cup {Thrown} :
         LET action       == run.plan.actions[run.next]
             result       == executeAction(action, run.context, answer)
             policyResult == validateFileChanges(config, result.changes)
             done         == [run EXCEPT !.next = @ + 1,
                                          !.changes = result.changes]
         IN
         run' = IF result.threw
                THEN [done EXCEPT !.errors =
                        Append(@, Failure("action", action.id, Undef,
                                          result.message))]
                ELSE IF ~policyResult.allowed
                THEN [done EXCEPT !.errors =
                        Append(@, Failure("policy", 0, action.path,
                                          policyResult.reason))]
                ELSE [done EXCEPT !.filesChanged = Track(@, result.changes)]
    /\ UNCHANGED <<managed, steps, config, emitter, resolver, gate, stream>>

\* ExecutePhase.execute: one turn of the loop over plan.actions, with the
\* onFileChange callback of runExecutionPhase
ExecuteAction ==
    /\ run.pc = "action"
    /\ run.next <= Len(run.plan.actions)
    /\ \E answer \in Generated \cup {Thrown} :
         LET action       == run.plan.actions[run.next]
             result       == executeAction(action, run.context, answer)
             policyResult == validateFileChanges(config, result.changes)
             done         == [run EXCEPT
                                !.next = @ + 1,
                                !.changes = result.changes,
                                !.generated = IF result.called
                                              THEN @ \cup {action.id} ELSE @]
             failed(f)    == [done EXCEPT !.errors = Append(@, f)]
             started      == <<"action:start">>
                               \o (IF result.called
                                   THEN llm(answer # Thrown) ELSE <<>>)
         IN
         IF result.threw
         THEN /\ Emit(started \o <<"action:failed">>,
                      failed(Failure("action", action.id, Undef,
                                     result.message)))
              /\ UNCHANGED managed
         ELSE IF Refused(policyResult)
         THEN /\ Emit(started \o <<"action:failed">>,
                      failed(Failure("policy", 0, action.path,
                                     policyResult.reason)))
              /\ UNCHANGED managed
         ELSE /\ UpdateFiles(result.changes)
              /\ IF Threw
                 THEN EmitAround(started, <<"action:failed">>,
                                 failed(Failure("action", action.id, Undef,
                                                "save failed")))
                 ELSE EmitAround(started,
                                 fileEvents(result.changes)
                                   \o <<"action:complete">>,
                                 [done EXCEPT !.filesChanged =
                                                Track(@, result.changes)])
    /\ UNCHANGED <<steps, config, resolver, gate, stream>>

\* runExecutionPhase after execute returned: addPhaseResult
ExecuteResult ==
    /\ run.pc = "action"
    /\ run.next > Len(run.plan.actions)
    /\ AddPhaseResult([phase |-> "executing", success |-> run.errors = <<>>])
    /\ Emit(<<"execute:complete">>,
            IF Threw THEN Caught("save failed")
            ELSE [run EXCEPT !.pc = "validating"])
    /\ UNCHANGED <<steps, config, resolver, gate, stream>>

ValidateSetPhaseSkipped ==
    /\ run.pc = "validating"
    /\ run' = [run EXCEPT !.pc = "validate"]
    /\ UNCHANGED <<managed, steps, config, emitter, resolver, gate, stream>>

\* runValidationPhase: setPhase('validating')
ValidateSetPhase == run.pc = "validating" /\ Enter("validating", "validate")

\* runValidationPhase: validatePhase.validate, then addPhaseResult
Validate ==
    /\ run.pc = "validate"
    /\ \E answer \in ValidateAnswers :
         LET validation == validate(run.errors, answer) IN
         /\ AddPhaseResult([phase |-> "validating",
                            success |-> validation.isValid])
         /\ Emit(<<"validate:start">> \o llm(answer.kind # Thrown)
                   \o (IF answer.kind # Thrown
                       THEN <<"validate:complete">> ELSE <<>>),
                 [(IF Threw THEN Caught("save failed")
                   ELSE [run EXCEPT !.pc = "assistant",
                                    !.validation = validation])
                    EXCEPT !.responseContent = answer.kind])
    /\ UNCHANGED <<steps, config, resolver, gate, stream>>

\* sendMessage: addMessage of the assistant's message
AddAssistant ==
    /\ run.pc = "assistant"
    /\ AddMessage([role |-> "assistant", content |-> run.validation.summary])
    /\ Emit(IF Threw THEN <<>> ELSE <<"message:add">>,
            IF Threw THEN Caught("save failed")
            ELSE [run EXCEPT !.pc = "complete"])
    /\ UNCHANGED <<steps, config, resolver, gate, stream>>

\* sendMessage: setPhase('completed') and the return of the response
Complete ==
    /\ run.pc = "complete"
    /\ SetPhase("completed")
    /\ run' = [(IF Threw THEN Caught("save failed")
                ELSE [run EXCEPT
                        !.pc = "ready",
                        !.promise = "fulfilled",
                        !.response =
                          [phase        |-> "completed",
                           success      |-> run.validation.isValid,
                           filesChanged |-> run.filesChanged,
                           content      |-> run.validation.summary]])
                 EXCEPT !.stages = Append(run.stages, "completed")]
    /\ UNCHANGED <<steps, config, emitter, resolver, gate, stream>>

\* the catch of sendMessage: setPhase('error') and the return of the error
\* response; what setPhase throws leaves sendMessage
Catch ==
    /\ run.pc = "catch"
    /\ SetPhase("error")
    /\ emitter' = IF Threw THEN emitter ELSE emit(emitter, "error")
    /\ run' = [(IF Threw \/ (~Threw /\ emitter'.emitted.threw)
                THEN [run EXCEPT !.pc = "ready", !.promise = "rejected"]
                ELSE [run EXCEPT
                        !.pc = "ready",
                        !.promise = "fulfilled",
                        !.response =
                          [phase |-> "error", success |-> FALSE,
                           filesChanged |-> <<>>, content |-> run.error]])
                 EXCEPT !.stages = Append(run.stages, "error")]
    /\ UNCHANGED <<steps, config, resolver, gate, stream>>

\* an Agent after its constructor
InitAgent ==
    /\ state = createEmptyState
    /\ vfs = EmptyFiles
    /\ snapshots = <<>>
    /\ autoSave \in BOOLEAN
    /\ stored \in {<<>>, <<serializeState(EarlierState)>>}
    /\ pc = "idle"
    /\ txSnapshot = <<>>
    /\ tx = NoTx
    /\ initialized = FALSE
    /\ taken = {}
    /\ writes = [p \in Paths |-> [n |-> 0, deleted |-> FALSE]]
    /\ last = Last("new", "ok", FALSE, NoArg)
    /\ steps = 0
    /\ config \in {PolicyGate(options) : options \in PolicyOptions}
    /\ run = NoRun
    /\ emitter = NoListeners
    /\ resolver = NoQuestion
    /\ gate = NoCall
    /\ stream = NoStream

NextAgent ==
    \/ AgentInitialize
    \/ SendMessage
    \/ IntentSetPhase
    \/ Analyze(PlainIntentAnswers)
    \/ PlanSetPhase
    \/ CreatePlan
    \/ ExecuteSetPhase
    \/ ExecuteAction
    \/ ExecuteResult
    \/ ValidateSetPhase
    \/ Validate
    \/ AddAssistant
    \/ Complete
    \/ Catch

SpecAgent == InitAgent /\ [][NextAgent]_vars

(***************************************************************************)
(* SpecIntent: a request up to its plan stage, over every kind of answer   *)
(* of the reasoning service to the intent stage                            *)
(***************************************************************************)
NextIntent ==
    \/ AgentInitialize
    \/ SendMessage
    \/ IntentSetPhase
    \/ Analyze(IntentAnswers)
    \/ PlanSetPhase
    \/ Catch

SpecIntent == InitAgent /\ [][NextIntent]_vars

(***************************************************************************)
(* SpecListen: the Agent with two listeners on every event, the first of   *)
(* which throws                                                            *)
(***************************************************************************)
\* a listener that returns and one that throws
Plain == Handler("f", FALSE, FALSE)
Thrower == Handler("g", TRUE, FALSE)

\* agent.on(event, handler) for each handler, on every event
Listening(handlers) ==
    [NoListeners EXCEPT !.listeners = [e \in Events |-> handlers]]

\* an Agent after its constructor and the on calls of its user
InitListen ==
    /\ state = createEmptyState
    /\ vfs = EmptyFiles
    /\ snapshots = <<>>
    /\ autoSave \in BOOLEAN
    /\ stored \in {<<>>, <<serializeState(EarlierState)>>}
    /\ pc = "idle"
    /\ txSnapshot = <<>>
    /\ tx = NoTx
    /\ initialized = FALSE
    /\ taken = {}
    /\ writes = [p \in Paths |-> [n |-> 0, deleted |-> FALSE]]
    /\ last = Last("new", "ok", FALSE, NoArg)
    /\ steps = 0
    /\ config = PolicyGate([maxFileSize |-> 0, allowedFileTypes |-> {},
                            maxConcurrentActions |-> 0,
                            requireConfirmation |-> FALSE])
    /\ run = NoRun
    /\ emitter = Listening(<<Thrower, Plain>>)
    /\ resolver = NoQuestion
    /\ gate = NoCall
    /\ stream = NoStream

SpecListen == InitListen /\ [][NextAgent]_vars

(***************************************************************************)
(* SpecMemory: a StateManager on an InMemoryAdapter, up to the initialize  *)
(* that loads what was saved                                               *)
(***************************************************************************)
\* InMemoryAdapter.save: what the adapter holds after it
InMemorySave(st) == JsonState(st)

InMemoryLoadRestoring(held) ==
    [state |-> deserializeState(held), isMap |-> TRUE]

\* InMemoryAdapter.load: the state it holds, as save left it; `isMap` tells
\* whether its files.files is a Map, or the array of entries
InMemoryLoad(held) == [state |-> held, isMap |-> FALSE]

\* Array.from(array.values()) of the entries that the loaded state has in
\* place of its Map: the [path, file] pairs
PairsOf(entries) ==
    LET files == ListOf(MapOf(entries)) IN
    [i \in 1..Len(files) |-> <<files[i].path, files[i]>>]

\* new VirtualFileSystem(pairs): files.set(pair.path, pair) with the
\* undefined that a pair has for `path`
VfsFromPairs(pairs) ==
    IF pairs = <<>> THEN EmptyFiles
    ELSE [p \in {Undef} |-> pairs[Len(pairs)]]

\* the Map createSnapshot makes of array.entries(): the pairs by their index
IndexedPairs(pairs) == [i \in 0..(Len(pairs) - 1) |-> pairs[i + 1]]

\* persist() through the InMemoryAdapter
MemorySave ==
    /\ last.op # "load"
    /\ stored' = <<InMemorySave(state)>>
    /\ last' = Last("persist", "ok", FALSE, NoArg)
    /\ UNCHANGED <<state, vfs, snapshots, autoSave, pc, txSnapshot, tx,
                   initialized, taken, writes>>

\* initialize() whose adapter.load() returns a state: the state is the loaded
\* one, the store is built from getAllFiles(), and a snapshot is taken
InitializeFromMemory ==
    /\ stored # <<>>
    /\ last.op # "load"
    /\ LET loaded == InMemoryLoad(stored[1])
           pairs  == PairsOf(stored[1].files)
       IN
       /\ state' = loaded.state
       /\ vfs' = IF loaded.isMap
                 THEN VfsFromList(EmptyFiles, ListOf(loaded.state.files))
                 ELSE VfsFromPairs(pairs)
       /\ snapshots' =
            PushSnapshot(snapshots,
                         IF loaded.isMap THEN SnapshotOf(loaded.state)
                         ELSE [state   |-> [stored[1] EXCEPT
                                              !.files = IndexedPairs(pairs)],
                               version |-> stored[1].version])
       /\ taken' = taken \cup {stored[1].version}
    /\ initialized' = TRUE
    /\ last' = Last("load", "ok", FALSE, NoArg)
    /\ UNCHANGED <<autoSave, stored, pc, txSnapshot, tx, writes>>

InitMemory == Init /\ ~autoSave /\ stored = <<>>

\* the StateManager is followed up to the initialize that loads
NextMemory ==
    \/ last.op # "load" /\ Tick /\ \E changes \in Batches : UpdateFiles(changes)
    \/ MemorySave /\ NoTick
    \/ InitializeFromMemory /\ NoTick

SpecMemory == InitMemory /\ [][NextMemory]_vars

(***************************************************************************)
(* SpecResolver: the calls of resolveImportPath and buildDependencyGraph   *)
(***************************************************************************)
InitResolver ==
    /\ state = createEmptyState
    /\ vfs = EmptyFiles
    /\ snapshots = <<>>
    /\ autoSave = FALSE
    /\ stored = <<>>
    /\ pc = "idle"
    /\ txSnapshot = <<>>
    /\ tx = NoTx
    /\ initialized = FALSE
    /\ taken = {}
    /\ writes = [p \in Paths |-> [n |-> 0, deleted |-> FALSE]]
    /\ last = Last("new", "ok", FALSE, NoArg)
    /\ steps = 0
    /\ config = PolicyGate([maxFileSize |-> 0, allowedFileTypes |-> {},
                            maxConcurrentActions |-> 0,
                            requireConfirmation |-> FALSE])
    /\ run = NoRun
    /\ emitter = NoListeners
    /\ resolver \in
         {Question("resolve", specifier, importerPath, existingPaths, <<>>) :
            specifier \in Specifiers, importerPath \in Importers,
            existingPaths \in SUBSET KnownPaths}
         \cup {Question("graph", <<>>, <<>>, {}, files) : files \in GraphFiles}
    /\ gate = NoCall
    /\ stream = NoStream

ResolveImportPath ==
    /\ resolver.kind = "resolve"
    /\ ~resolver.returned
    /\ resolver' = [resolver EXCEPT
                      !.returned = TRUE,
                      !.resolved = resolveImportPath(resolver.specifier,
                                                     resolver.importerPath,
                                                     resolver.existingPaths)]
    /\ UNCHANGED <<managed, steps, config, run, emitter, gate, stream>>

BuildDependencyGraph ==
    /\ resolver.kind = "graph"
    /\ ~resolver.returned
    /\ resolver' = [resolver EXCEPT
                      !.returned = TRUE,
                      !.graph = buildDependencyGraph(resolver.files)]
    /\ UNCHANGED <<managed, steps, config, run, emitter, gate, stream>>

NextResolver ==
    \/ ResolveImportPath
    \/ BuildDependencyGraph

SpecResolver == InitResolver /\ [][NextResolver]_vars

(***************************************************************************)
(* SpecPolicy: the calls of validatePlan and validateFileChanges           *)
(***************************************************************************)
InitPolicy ==
    /\ state = createEmptyState
    /\ vfs = EmptyFiles
    /\ snapshots = <<>>
    /\ autoSave = FALSE
    /\ stored = <<>>
    /\ pc = "idle"
    /\ txSnapshot = <<>>
    /\ tx = NoTx
    /\ initialized = FALSE
    /\ taken = {}
    /\ writes = [p \in Paths |-> [n |-> 0, deleted |-> FALSE]]
    /\ last = Last("new", "ok", FALSE, NoArg)
    /\ steps = 0
    /\ config \in {PolicyGate(options) : options \in PolicyOptions}
    /\ run = NoRun
    /\ emitter = NoListeners
    /\ resolver = NoQuestion
    /\ gate \in {Call("plan", plan, <<>>) : plan \in GatePlans}
                 \cup {Call("changes", Plan(<<>>, FALSE), changes) :
                         changes \in GateChanges}
    /\ stream = NoStream

ValidatePlan ==
    /\ gate.kind = "plan"
    /\ ~gate.returned
    /\ gate' = [gate EXCEPT !.returned = TRUE,
                            !.result = validatePlan(config, gate.plan)]
    /\ UNCHANGED <<managed, steps, config, run, emitter, resolver,
                 stream>>

ValidateFileChanges ==
    /\ gate.kind = "changes"
    /\ ~gate.returned
    /\ gate' = [gate EXCEPT
                  !.returned = TRUE,
                  !.result = validateFileChanges(config, gate.changes)]
    /\ UNCHANGED <<managed, steps, config, run, emitter, resolver,
                 stream>>

NextPolicy ==
    \/ ValidatePlan
    \/ ValidateFileChanges

SpecPolicy == InitPolicy /\ [][NextPolicy]_vars

(***************************************************************************)
(* SpecEmitter: an EventEmitter and the calls of its user                  *)
(***************************************************************************)
\* handlers registered for one event at a time
MaxListeners == 2

EmitterEvents == {"error", "message:add"}

Handlers == {Plain, Thrower}

\* the Agent stands still
Idle == UNCHANGED <<managed, steps, config, run, resolver, gate, stream>>

On == \E e \in EmitterEvents, h \in Handlers :
        /\ Len(emitter.listeners[e]) < MaxListeners
        /\ emitter' = on(emitter, e, h)
        /\ Idle

\* each once makes a wrappedHandler of its own: one per handler and event
\* at a time here
Once == \E e \in EmitterEvents, h \in Handlers :
          /\ Len(emitter.listeners[e]) < MaxListeners
          /\ ~registered(emitter, e, [h EXCEPT !.once = TRUE])
          /\ emitter' = once(emitter, e, h)
          /\ Idle

Off == \E e \in EmitterEvents, h \in Handlers :
         emitter' = off(emitter, e, h) /\ Idle

\* the function that once returned: off of the wrappedHandler
Unsubscribe == \E e \in EmitterEvents, h \in Handlers :
                 emitter' = off(emitter, e, [h EXCEPT !.once = TRUE]) /\ Idle

EmitEvent == \E e \in EmitterEvents : emitter' = emit(emitter, e) /\ Idle

RemoveAllListeners ==
    \E e \in EmitterEvents \cup {Undef} :
        emitter' = removeAllListeners(emitter, e) /\ Idle

NextEmitter ==
    \/ On
    \/ Once
    \/ Off
    \/ Unsubscribe
    \/ EmitEvent
    \/ RemoveAllListeners

SpecEmitter == Init /\ [][NextEmitter]_vars

(***************************************************************************)
(* SpecStream: one call of BasePhase.callLLM                               *)
(***************************************************************************)
\* the frame of a step of callLLM
Calling == UNCHANGED <<managed, steps, config, run, resolver, gate>>

accumulatePrepending(fullContent, delta) == delta \o fullContent

\* `fullContent += chunk.delta`
accumulate(fullContent, delta) == fullContent \o delta

\* the emit of a step of callLLM and the event it hands to the listeners
EmitData(data, s) ==
    /\ emitter' = emit(emitter, data.event)
    /\ stream' = [s EXCEPT !.events = Append(stream.events, data)]

RECURSIVE whole(_)
\* response.content of complete(request): the text of the answer
whole(chunks) ==
    IF chunks = <<>> THEN <<>> ELSE Head(chunks) \o whole(Tail(chunks))

\* callLLM to its first await: callLLMWithStreaming to the loop, or
\* callLLMWithoutStreaming to the await of complete
CallLLM ==
    /\ stream.pc = "called"
    /\ IF stream.streamingEnabled /\ stream.hasStream
       THEN EmitData(Event("stream:start", <<>>, <<>>, <<>>),
                     [stream EXCEPT !.pc = "streaming"])
       ELSE EmitData(Event("llm:start", <<>>, <<>>, <<>>),
                     [stream EXCEPT !.pc = "completing"])
    /\ Calling

\* one turn of `for await (const chunk of stream)`
StreamChunk ==
    /\ stream.pc = "streaming"
    /\ stream.consumed < Len(stream.chunks)
    /\ LET delta == stream.chunks[stream.consumed + 1]
           fullContent == accumulate(stream.fullContent, delta) IN
       EmitData(Event("stream:chunk", delta, fullContent, <<>>),
                [stream EXCEPT !.consumed = @ + 1,
                               !.fullContent = fullContent])
    /\ Calling

\* the stream is done: stream:complete and `return fullContent`
StreamComplete ==
    /\ stream.pc = "streaming"
    /\ stream.consumed = Len(stream.chunks)
    /\ ~stream.throws
    /\ EmitData(Event("stream:complete", <<>>, <<>>, <<>>),
                [stream EXCEPT !.pc = "returned",
                               !.content = stream.fullContent])
    /\ Calling

\* the stream throws, and so does callLLM
StreamThrow ==
    /\ stream.pc = "streaming"
    /\ stream.consumed = Len(stream.chunks)
    /\ stream.throws
    /\ stream' = [stream EXCEPT !.pc = "thrown"]
    /\ UNCHANGED emitter
    /\ Calling

\* complete(request) answers: llm:complete and `return content`
CompleteLLM ==
    /\ stream.pc = "completing"
    /\ ~stream.throws
    /\ LET content == whole(stream.chunks) IN
       EmitData(Event("llm:complete", <<>>, <<>>, content),
                [stream EXCEPT !.pc = "returned", !.content = content])
    /\ Calling

\* complete(request) throws, and so does callLLM
CompleteThrow ==
    /\ stream.pc = "completing"
    /\ stream.throws
    /\ stream' = [stream EXCEPT !.pc = "thrown"]
    /\ UNCHANGED emitter
    /\ Calling

InitStream ==
    /\ state = createEmptyState
    /\ vfs = EmptyFiles
    /\ snapshots = <<>>
    /\ autoSave = FALSE
    /\ stored = <<>>
    /\ pc = "idle"
    /\ txSnapshot = <<>>
    /\ tx = NoTx
    /\ initialized = FALSE
    /\ taken = {}
    /\ writes = [p \in Paths |-> [n |-> 0, deleted |-> FALSE]]
    /\ last = Last("new", "ok", FALSE, NoArg)
    /\ steps = 0
    /\ config = PolicyGate([maxFileSize |-> 0, allowedFileTypes |-> {},
                            maxConcurrentActions |-> 0,
                            requireConfirmation |-> FALSE])
    /\ run = NoRun
    /\ emitter \in {NoListeners,
                    on(on(NoListeners, "stream:chunk", Thrower),
                       "stream:chunk", Plain)}
    /\ resolver = NoQuestion
    /\ gate = NoCall
    /\ stream \in {LLMCall(streamingEnabled, hasStream, chunks, throws) :
                     streamingEnabled \in BOOLEAN, hasStream \in BOOLEAN,
                     chunks \in Deliveries, throws \in BOOLEAN}

NextStream ==
    \/ CallLLM
    \/ StreamChunk
    \/ StreamComplete
    \/ StreamThrow
    \/ CompleteLLM
    \/ CompleteThrow

SpecStream == InitStream /\ [][NextStream]_vars

(***************************************************************************)
(* Properties                                                              *)
(***************************************************************************)
\* the file entries held by the adapter (none when nothing is stored)
StoredFiles(held) == IF held = <<>> THEN {} ELSE held[1].files

\* the index of the last retained snapshot tagged `version`, 0 when none
LastSnapshot(snaps, version) ==
    IF \E i \in 1..Len(snaps) : snaps[i].version = version
    THEN CHOOSE i \in 1..Len(snaps) :
           /\ snaps[i].version = version
           /\ \A j \in (i + 1)..Len(snaps) : snaps[j].version # version
    ELSE 0

Retained(snaps, version) == \E i \in 1..Len(snaps) : snaps[i].version = version

FnThrew == last.op = "transaction" /\ last.arg.fn = "threw"

\* C1: when the fn of a transaction throws, the live state and the store are
\* after the call what they were when transaction was called, and the call
\* throws.
C1_FailedTransactionRestores ==
    FnThrew => /\ state = tx.state
               /\ vfs = tx.vfs
               /\ last.result = "throw"

\* a transaction whose fn called updateFiles and then threw
C1_Witness == FnThrew /\ tx.mutated

\* C2: after a transaction whose fn applied changes through updateFiles and
\* threw, with autoSave, the state held by the adapter has the files it had
\* when transaction was called: none of fn's mutations is in storage.
C2_StorageHasNoPartialMutation ==
    (FnThrew /\ autoSave /\ tx.mutated)
        => StoredFiles(stored) = StoredFiles(tx.stored)

\* C3: every updateFiles call adds exactly 1 to State.version, whatever the
\* batch; a create of an absent path gives the file version 1, and an update
\* of that file gives it version 2.
C3_OneVersionPerBatch ==
    [][ last'.op = "updateFiles" =>
          /\ state'.version = state.version + 1
          /\ (/\ last'.arg.changes = <<Change("create", "/x.ts", "a")>>
              /\ ~exists(vfs, "/x.ts"))
                => /\ state'.files["/x.ts"].version = 1
                   /\ vfs'["/x.ts"].version = 1
          /\ (/\ last'.arg.changes = <<Change("update", "/x.ts", "b")>>
              /\ exists(vfs, "/x.ts")
              /\ vfs["/x.ts"].version = 1)
                => /\ state'.files["/x.ts"].version = 2
                   /\ vfs'["/x.ts"].version = 2 ]_vars

\* an update of the file a first create made, State.version raised twice
C3_Witness ==
    /\ last.op = "updateFiles"
    /\ last.arg.changes = <<Change("update", "/x.ts", "b")>>
    /\ exists(vfs, "/x.ts")
    /\ vfs["/x.ts"].version = 2
    /\ state.version = 3

\* C4: from an absent path, after N writes with no delete in between the
\* file's version is N; a delete removes the path, and the next write gives
\* version 1 again.
C4_VersionCountsWrites ==
    \A p \in Paths :
      /\ exists(vfs, p) <=> writes[p].n > 0
      /\ exists(vfs, p) => vfs[p].version = writes[p].n
      /\ (last.op = "deleteFile" /\ last.arg.path = p) => ~exists(vfs, p)

\* a first write after a delete, and several writes in a row
C4_Witness ==
    /\ last.op = "writeFile"
    /\ last.arg.path = "/x.ts"
    /\ writes["/x.ts"].deleted
    /\ vfs["/x.ts"].version = 1
    /\ exists(vfs, "/y.css")
    /\ vfs["/y.css"].version = 3

\* C5: at most maxSnapshots snapshots are retained; a snapshot taken when
\* maxSnapshots are retained evicts the oldest and keeps the other nine in
\* order, followed by the new one.
C5_SnapshotFifo ==
    [][ /\ Len(snapshots') <= maxSnapshots
        /\ last'.op = "createSnapshot" =>
             /\ snapshots'[Len(snapshots')] = SnapshotOf(state)
             /\ IF Len(snapshots) = maxSnapshots
                THEN /\ Len(snapshots') = maxSnapshots
                     /\ \A i \in 1..(maxSnapshots - 1) :
                          snapshots'[i] = snapshots[i + 1]
                ELSE /\ Len(snapshots') = Len(snapshots) + 1
                     /\ \A i \in 1..Len(snapshots) :
                          snapshots'[i] = snapshots[i] ]_vars

\* a snapshot taken with the list full, the snapshots of version 1 evicted
C5_Witness ==
    /\ last.op = "createSnapshot"
    /\ Len(snapshots) = maxSnapshots
    /\ 1 \in taken
    /\ ~Retained(snapshots, 1)

\* C6: rollback(v) with no retained snapshot tagged v returns false and
\* leaves the live state, the store, the snapshots and storage as they were.
C6_RollbackUnknownVersion ==
    [][ (last'.op = "rollback" /\ ~Retained(snapshots, last'.arg.version)) =>
          /\ last'.result = "false"
          /\ UNCHANGED <<state, vfs, snapshots, stored>> ]_vars

\* a rollback refused for a version whose snapshots were evicted
C6_Witness ==
    /\ last.op = "rollback"
    /\ last.result = "false"
    /\ last.arg.version \in taken
    /\ Len(snapshots) = maxSnapshots
    /\ state.version # last.arg.version

\* C7: when several retained snapshots are tagged v, rollback(v) restores the
\* one taken last.
C7_RollbackRestoresMostRecent ==
    [][ (last'.op = "rollback" /\ Retained(snapshots, last'.arg.version)) =>
          state' = snapshots[LastSnapshot(snapshots, last'.arg.version)].state
      ]_vars

\* C8: rollback(v) with a retained snapshot tagged v makes the live state and
\* the store those of a retained snapshot tagged v; it returns true and, with
\* autoSave, storage holds the restored state, unless the save throws.
C8_RollbackReplacesState ==
    [][ (last'.op = "rollback" /\ Retained(snapshots, last'.arg.version)) =>
          /\ \E i \in 1..Len(snapshots) :
               /\ snapshots[i].version = last'.arg.version
               /\ state' = snapshots[i].state
               /\ vfs' = snapshots[i].state.files
          /\ state'.version = last'.arg.version
          /\ last'.result = "true" \/ last'.saveFailed
          /\ (autoSave /\ ~last'.saveFailed)
               => stored' = <<serializeState(state')>>
          /\ ~autoSave => stored' = stored ]_vars

\* a rollback to a version below that of a later snapshot, saved
C8_Witness ==
    /\ last.op = "rollback"
    /\ last.result = "true"
    /\ autoSave
    /\ exists(vfs, "/x.ts") /\ vfs["/x.ts"].content = "a"
    /\ \E i \in 1..Len(snapshots) :
         /\ snapshots[i].version > state.version
         /\ exists(snapshots[i].state.files, "/x.ts")
         /\ snapshots[i].state.files["/x.ts"].content = "b"

\* the mutation of one of the four mutating methods is in the live state
MutationKept ==
    /\ last'.op = "updateFiles" =>
         /\ state'.version = state.version + 1
         /\ vfs' = applyChanges(vfs, last'.arg.changes).files
         /\ state'.files = vfs'
    /\ last'.op = "addMessage" =>
         /\ Len(state'.messages) = Len(state.messages) + 1
         /\ SubSeq(state'.messages, 1, Len(state.messages)) = state.messages
    /\ last'.op = "setPhase" => state'.currentPhase = last'.arg.phase
    /\ last'.op = "addPhaseResult" =>
         /\ Len(state'.history) = Len(state.history) + 1
         /\ SubSeq(state'.history, 1, Len(state.history)) = state.history

SavingOps == {"updateFiles", "addMessage", "setPhase", "addPhaseResult"}

\* C9 as stated: when the save of the auto-save throws in updateFiles,
\* addMessage, setPhase, addPhaseResult or in transaction after fn returned,
\* the method throws and the live state keeps what was done before the save.
C9_SaveFailureKeepsMutation ==
    [][ (last'.saveFailed /\ last'.op \in SavingOps \cup {"transaction"}) =>
          /\ last'.result = "throw"
          /\ MutationKept
          /\ last'.op = "transaction" => (state' = state /\ vfs' = vfs) ]_vars

\* C9 amended: the four methods throw and keep their mutation; transaction
\* throws too, but the live state and the store are restored to what they
\* were when transaction was called.
C9_SaveFailureKeepsOrRestores ==
    [][ (last'.saveFailed /\ last'.op \in SavingOps \cup {"transaction"}) =>
          /\ last'.result = "throw"
          /\ MutationKept
          /\ last'.op = "transaction" =>
               (state' = tx.state /\ vfs' = tx.vfs) ]_vars

\* a transaction whose fn changed files and returned, and whose save threw
C9_Witness ==
    /\ last.op = "transaction"
    /\ last.arg.fn = "returned"
    /\ last.saveFailed
    /\ tx.mutated
    /\ state = tx.state

\* C10: a second initialize on the same instance leaves the live state, the
\* store and the snapshots as they were.
C10_SecondInitializeIsNoOp ==
    [][ (last'.op = "initialize" /\ initialized) =>
          UNCHANGED <<state, vfs, snapshots>> ]_vars

\* C11: for an initialized agent sendMessage never rejects: a run in which
\* a stage or a collaborator failed resolves to a response with
\* success=false, phase `error`, no filesChanged and the failure as content
C11_SendMessageNeverRejects ==
    /\ run.promise # "rejected"
    /\ (run.promise = "fulfilled" /\ run.error # Undef)
         => run.response = [phase |-> "error", success |-> FALSE,
                            filesChanged |-> <<>>, content |-> run.error]

\* the stages of a request that meets no failure
StageOrder == <<"intent", "planning", "executing", "validating", "completed">>

\* C12: the stages set within one request are intent, planning, executing,
\* validating, completed in this order, none skipped or repeated, possibly
\* cut short by `error`, after which no stage is set; the recorded stage is
\* the last one set
C12_StagesInOrder ==
    LET n == Len(run.stages)
        m == IF n > 0 /\ run.stages[n] = "error" THEN n - 1 ELSE n
    IN
    /\ m <= Len(StageOrder)
    /\ \A i \in 1..m : run.stages[i] = StageOrder[i]
    /\ n > 0 => state.currentPhase = run.stages[n]

C12_Witness ==
    /\ run.promise = "fulfilled"
    /\ run.stages = StageOrder
    /\ state.currentPhase = "completed"

\* the policy gate refused the plan of this request
PlanRefused == run.error = "Planning failed: Policy violation"

\* the request is over: its promise is settled
Settled == run.promise \in {"fulfilled", "rejected"}

\* C13: when the policy gate refuses the plan, the generate and validate
\* stages never run, no Action is executed, no artifact changes,
\* State.version is unchanged, and the run ends in stage `error` with
\* success=false
C13_RefusedPlanEndsInError ==
    PlanRefused =>
      /\ \A i \in 1..Len(run.stages) :
           run.stages[i] \notin {"executing", "validating", "completed"}
      /\ run.next = 1 /\ run.generated = {} /\ run.filesChanged = <<>>
      /\ vfs = run.before.files /\ state.files = run.before.files
      /\ state.version = run.before.version
      /\ Settled =>
           /\ state.currentPhase = "error"
           /\ run.promise = "fulfilled"
           /\ run.response.phase = "error" /\ ~run.response.success

\* the generate stage is about to process the Action `run.next` of the plan
Processing == run.pc = "action" /\ run.next <= Len(run.plan.actions)

\* the Action being processed
Current == run.plan.actions[run.next]

\* the step recorded one per-action failure and applied nothing
FailedUnapplied ==
    /\ Len(run'.errors) = Len(run.errors) + 1
    /\ run'.filesChanged = run.filesChanged
    /\ vfs' = vfs /\ state' = state

\* C14: a `create` Action whose path exists in the store when the Action is
\* processed is recorded as a per-action failure, calls no reasoning service
\* and leaves the artifact as it is: no create overwrites an artifact
C14_CreateNeverOverwrites ==
    [][(Processing /\ Current.type = "create_file" /\ exists(vfs, Current.path))
         => (FailedUnapplied /\ run'.generated = run.generated)]_vars

\* the step recorded a failure of a collaborator of the Action: the
\* reasoning service threw, the policy gate refused, or the save threw
CollaboratorFailed ==
    /\ Len(run'.errors) = Len(run.errors) + 1
    /\ LET f == run'.errors[Len(run'.errors)] IN
       f.kind = "policy" \/ f.message \in {Thrown, "save failed"}

\* C15: an `update` Action is a per-action failure that applies nothing
\* exactly when its path does not exist in the store as the Action is
\* processed; when the path exists (and no collaborator fails) the version
\* of the artifact increases by 1
C15_UpdateFailsIffAbsent ==
    [][(Processing /\ Current.type = "update_file") =>
         IF ~exists(vfs, Current.path) THEN FailedUnapplied
         ELSE \/ CollaboratorFailed
              \/ /\ run'.errors = run.errors
                 /\ exists(vfs', Current.path)
                 /\ vfs'[Current.path].version = vfs[Current.path].version + 1
      ]_vars

\* C16: processing a `read` Action is a no-op: no reasoning-service call, no
\* artifact changes, State.version is unchanged and no path is added to
\* filesChanged
C16_ReadIsNoOp ==
    [][(Processing /\ Current.type = "read_file") =>
         /\ run'.generated = run.generated
         /\ vfs' = vfs /\ state'.files = state.files
         /\ state'.version = state.version
         /\ run'.filesChanged = run.filesChanged]_vars

PolicyRefuses ==
    /\ Processing
    /\ run'.changes # <<>>
    /\ ~validateFileChanges(config, run'.changes).allowed

\* C18: when the policy gate refuses the change set of an Action, the
\* changes are not applied, exactly one failure naming the path of the
\* Action is recorded and the loop goes on to the next Action; the stage
\* ends only when every Action has been processed, and filesChanged gains
\* the paths of the change sets of the Actions that went through, and no
\* others
C18_RefusedChangesSkipped ==
    [][/\ PolicyRefuses =>
            /\ vfs' = vfs /\ state' = state /\ stored' = stored
            /\ \E f \in {run'.errors[Len(run'.errors)]} :
                 /\ run'.errors = Append(run.errors, f)
                 /\ f.kind = "policy" /\ f.path = Current.path
            /\ run'.filesChanged = run.filesChanged
            /\ run'.pc = "action" /\ run'.next = run.next + 1
       /\ (Processing /\ run'.errors = run.errors) =>
            run'.filesChanged = Track(run.filesChanged, run'.changes)
       /\ (Processing /\ run'.errors # run.errors) =>
            run'.filesChanged = run.filesChanged
       /\ (run.pc = "action" /\ run'.pc # "action") =>
            run.next > Len(run.plan.actions)
      ]_vars

\* a plan of 3 Actions whose Action 2 was refused: 2 changed paths, 1 failure
C18_Witness ==
    /\ Len(run.plan.actions) = 3 /\ run.next = 4
    /\ Len(run.errors) = 1
    /\ run.errors[1].kind = "policy"
    /\ run.errors[1].path = run.plan.actions[2].path
    /\ Len(run.filesChanged) = 2
    /\ run.pc = "validating"

\* validate returned `run.validation` for a generate stage that collected
\* at least one error
ValidatedWithErrors == run.validation # NoValidation /\ run.errors # <<>>

\* C19: when the generate stage collected an error, the validation result
\* has isValid=false and its errors contain every error of the generate
\* stage, whatever the reasoning service answered in the validate stage,
\* and the success flag of the response is false
C19_ExecutionErrorsInvalidate ==
    /\ ValidatedWithErrors =>
         /\ ~run.validation.isValid
         /\ \A i \in 1..Len(run.errors) :
              \E j \in 1..Len(run.validation.errors) :
                run.validation.errors[j].message = run.errors[i]
    /\ (run.promise = "fulfilled" /\ run.errors # <<>>) => ~run.response.success

\* the answer of the reasoning service to the plan stage or to the validate
\* stage failed the structural checks
Malformed == run.responseContent \in {"unparseable", "mismatch"}

\* C20: when the answer of the reasoning service to the plan stage or to
\* the validate stage is not parseable or does not match the schema, the
\* stage throws: no later stage runs and the run ends in stage `error` with
\* success=false
C20_MalformedAnswerEndsInError ==
    Malformed =>
      /\ run.error # Undef
      /\ run.pc \notin {"executing", "action", "validating", "validate",
                        "assistant", "complete"}
      /\ run.stages[Len(run.stages)] \in {"planning", "validating", "error"}
      /\ Settled =>
           /\ state.currentPhase = "error"
           /\ run.promise = "fulfilled"
           /\ run.response.phase = "error" /\ ~run.response.success

\* the answer of the reasoning service to the intent stage could not be
\* parsed or failed the intent schema
MalformedIntent ==
    /\ run.responseContent \in {"unparseable", "mismatch"}
    /\ run.intent # NoIntent

\* C21: when the answer to the classify stage cannot be parsed or fails the
\* schema, the intent is {type: 'query', confidence: 0.5, targetFiles: []},
\* nothing is thrown by the stage, its phase result is recorded as
\* successful and the pipeline goes on to the plan stage
C21_MalformedIntentFallsBack ==
    MalformedIntent =>
      /\ run.intent.type = "query"
      /\ run.intent.confidence = 50
      /\ run.intent.targetFiles = <<>>
      /\ run.error \in {Undef, "save failed"}
      /\ state.history[Len(state.history)] =
           [phase |-> "intent", success |-> TRUE]
      /\ run.error = Undef =>
           /\ run.pc \in {"planning", "createPlan"}
           /\ run.promise = "pending"

C21_Witness ==
    /\ MalformedIntent
    /\ run.pc = "createPlan"
    /\ state.currentPhase = "planning"

\* C22: a listener that throws during emit keeps no later listener of the
\* event from being called and nothing of it reaches the caller of emit: every
\* emit calls each handler registered for its event, in the order of their
\* registration, and returns; no request of an Agent with a throwing listener
\* on every event ends in the error of a listener, and sendMessage rejects
\* only with what the save of the StateManager threw
C22_ThrowingListenerIsContained ==
    /\ ~emitter.emitted.threw
    /\ emitter.emitted.called = emitter.emitted.registered
    /\ run.error # ListenerThrew
    /\ run.promise = "rejected" => last.result = "throw"

C22_Witness ==
    /\ emitter.emitted.registered = <<Thrower, Plain>>
    /\ emitter.emitted.called = <<Thrower, Plain>>
    /\ run.promise = "fulfilled"
    /\ run.response.phase = "completed"
    /\ run.response.filesChanged # <<>>

\* the handlers that once wrapped and that this emit of `event` called
CalledOnce(event) ==
    {emitter'.emitted.called[i] : i \in DOMAIN emitter'.emitted.called}
      \cap {h \in {[g EXCEPT !.once = TRUE] : g \in Handlers} : TRUE}

\* C30: a handler registered with once(event, handler) is no longer
\* registered after the first emit of the event that called it
C30_OnceHandlerCalledOnce ==
    [][\A e \in EmitterEvents :
         emitter' = emit(emitter, e) =>
           \A h \in CalledOnce(e) : ~registered(emitter', e, h)]_vars

\* buildDependencyGraph returned
Built == resolver.kind = "graph" /\ resolver.returned

In(x, seq) == \E i \in 1..Len(seq) : seq[i] = x

\* C23: in the graph of buildDependencyGraph, b is among the dependencies of
\* a exactly if a is among the dependents of b, for all files a and b; the
\* keys and the entries of both maps are paths of the files, never a bare
\* specifier such as `react`
C23_GraphIsSymmetric ==
    Built =>
      LET graph == resolver.graph
          paths == {resolver.files[i].path : i \in 1..Len(resolver.files)}
      IN
      /\ DOMAIN graph.dependencies = paths
      /\ DOMAIN graph.dependents = paths
      /\ \A a, b \in paths :
           In(b, graph.dependencies[a]) <=> In(a, graph.dependents[b])
      /\ \A a \in paths :
           \A b \in {graph.dependencies[a][i] :
                       i \in 1..Len(graph.dependencies[a])}
                      \cup {graph.dependents[a][i] :
                              i \in 1..Len(graph.dependents[a])} :
              b \in paths /\ ~isBareModule(b)

C23_Witness ==
    /\ Built
    /\ \E i \in 1..Len(resolver.files) :
         /\ In(Statement("import", <<"react">>), resolver.files[i].content)
         /\ resolver.graph.dependencies[resolver.files[i].path]
              = << <<"/", "a", ".", "ts">> >>
         /\ resolver.graph.dependents[<<"/", "a", ".", "ts">>]
              = <<resolver.files[i].path>>

\* resolveImportPath returned
Resolved == resolver.kind = "resolve" /\ resolver.returned

\* the paths that are probed for a candidate, in the order of the probes
Probes(candidate) ==
    <<candidate,
      candidate \o <<".", "ts">>, candidate \o <<".", "tsx">>,
      candidate \o <<".", "js">>, candidate \o <<".", "jsx">>,
      candidate \o <<"/", "index", ".", "ts">>,
      candidate \o <<"/", "index", ".", "tsx">>,
      candidate \o <<"/", "index", ".", "js">>,
      candidate \o <<"/", "index", ".", "jsx">> >>

\* the candidate of the call: the relative specifier resolved against the
\* directory of the importer, or the absolute specifier
Candidate ==
    IF startsWith(resolver.specifier, ".")
    THEN resolveRelativePath(resolver.specifier, resolver.importerPath)
    ELSE resolver.specifier

\* C24: resolveImportPath returns the first of the nine probes of the
\* candidate that is among the known paths, and not-found when none is or
\* when the specifier is bare; what it returns is a known path
C24_FirstProbeWins ==
    Resolved =>
      LET probes == Probes(Candidate)
          hits   == {i \in 1..9 : probes[i] \in resolver.existingPaths}
      IN
      /\ isBareModule(resolver.specifier) \/ hits = {}
           => resolver.resolved = NotFound
      /\ ~isBareModule(resolver.specifier) /\ hits # {}
           => /\ resolver.resolved
                   = probes[CHOOSE i \in hits : \A j \in hits : i <= j]
              /\ resolver.resolved \in resolver.existingPaths

C24_Witness ==
    /\ Resolved
    /\ resolver.specifier = <<".", ".", "/", "b">>
    /\ resolver.importerPath = <<"/", "b", "/", "a", ".", "ts">>
    /\ resolver.resolved = <<"/", "b", ".", "jsx">>
    /\ <<"/", "b", "/", "index", ".", "ts">> \in resolver.existingPaths

\* C25: after save(S) on the InMemoryAdapter, the StateManager that
\* initialize builds from load() holds the files of S, path by path
C25_MemoryRoundTrip ==
    last.op = "load" => vfs = MapOf(stored[1].files)

\* the operations of the StateManager that C26 names
Counted == {"updateFiles", "addMessage", "setPhase", "addPhaseResult",
            "createSnapshot", "transactionBegin", "transaction", "rollback",
            "clear"}

\* C26 as stated: State.version after each of the operations of the
\* StateManager is at least the version before it
C26_VersionNeverDecreases ==
    [][last'.op \in Counted => state'.version >= state.version]_vars

\* C26, amended: State.version does not decrease under updateFiles,
\* addMessage, setPhase, addPhaseResult, createSnapshot and a transaction
\* that returns; a rollback that finds a snapshot sets it to the version asked
\* for, clear sets it to 1, and a transaction that throws sets it to the
\* version at which the transaction began
C26_VersionDecreasesOnlyByRestore ==
    [][/\ last'.op \in Counted \ {"rollback", "clear", "transaction"}
            => state'.version >= state.version
       /\ last'.op = "transaction" /\ last'.result = "ok"
            => state'.version >= state.version
       /\ last'.op = "transaction" /\ last'.result = "throw"
            => state'.version = tx.state.version
       /\ last'.op = "rollback" /\ last'.result # "false"
            => state'.version = last'.arg.version
       /\ last'.op = "rollback" /\ last'.result = "false"
            => state'.version = state.version
       /\ last'.op = "clear" => state'.version = 1]_vars

C26_Witness ==
    /\ last.op = "rollback"
    /\ last.result = "true"
    /\ state.version = last.arg.version
    /\ \E i \in 1..Len(snapshots) : snapshots[i].version > state.version

\* C27: directly after updateFiles a snapshot of the version before the call
\* is retained, which rollback finds and which holds the files as they were
\* before the call
C27_UpdateFilesSnapshotsBefore ==
    [][last'.op = "updateFiles" =>
         LET i == FindSnapshot(snapshots', state.version) IN
         /\ i # 0
         /\ snapshots'[i].state.files = state.files]_vars

\* validatePlan returned for a gate without configuration
DefaultGate ==
    /\ gate.kind = "plan"
    /\ gate.returned
    /\ config = PolicyGate([maxFileSize |-> 0, allowedFileTypes |-> {},
                            maxConcurrentActions |-> 0,
                            requireConfirmation |-> FALSE])

\* C28: with no policy configured, validatePlan accepts the plans of 1 to 20
\* Actions of safe paths and refuses the plans of more than 20 Actions
C28_DefaultLimitIsTwenty ==
    DefaultGate /\ Len(gate.plan.actions) >= 1 =>
      (gate.result.allowed <=> Len(gate.plan.actions) <= 20)

\* the paths of the call of the PolicyGate that returned
GatedPaths ==
    {gate.plan.actions[i].path : i \in 1..Len(gate.plan.actions)}
      \cup {gate.changes[i].path : i \in 1..Len(gate.changes)}

\* C29: with a non-empty allow-list, what validatePlan and
\* validateFileChanges accept only names paths whose extension is in the
\* allow-list
C29_AcceptedPathsAreAllowListed ==
    gate.returned /\ config.allowedFileTypes # {} /\ gate.result.allowed =>
      \A path \in GatedPaths :
         getFileExtension(path) \in config.allowedFileTypes

RECURSIVE joined(_, _)
\* the first n of the chunks, one after the other
joined(chunks, n) ==
    IF n = 0 THEN <<>> ELSE joined(chunks, n - 1) \o chunks[n]

\* the call went the way of callLLMWithStreaming
Streaming == stream.pc # "none" /\ stream.streamingEnabled /\ stream.hasStream

\* C31: in streaming mode the events of a call of the reasoning service are
\* stream:start, then one stream:chunk for each fragment consumed so far,
\* in the order of delivery and each with the text accumulated up to it,
\* then (once the call returned) stream:complete; the call returns the
\* concatenation of all fragments in the order of delivery
C31_StreamIsInOrder ==
    Streaming /\ stream.pc # "called" =>
      /\ stream.events =
           <<Event("stream:start", <<>>, <<>>, <<>>)>>
           \o [i \in 1..stream.consumed |->
                 Event("stream:chunk", stream.chunks[i],
                       joined(stream.chunks, i), <<>>)]
           \o (IF stream.pc = "returned"
               THEN <<Event("stream:complete", <<>>, <<>>, <<>>)>>
               ELSE <<>>)
      /\ stream.pc = "returned" =>
           /\ stream.consumed = Len(stream.chunks)
           /\ stream.content = joined(stream.chunks, Len(stream.chunks))
      /\ emitter.emitted.called = emitter.emitted.registered

\* a streaming call of three fragments, two of them different, returned
C31_Witness ==
    /\ Streaming
    /\ stream.pc = "returned"
    /\ stream.chunks = << <<"b", "c">>, <<>>, <<"a">> >>
    /\ stream.content = <<"b", "c", "a">>
    /\ Len(stream.events) = 5

\* C32: addMessage appends one message at the end of the message list,
\* keeps the earlier messages and their order, and leaves the version, the
\* files, the phase history, the phase, the snapshots and the store alone
C32_AddMessageOnlyAppends ==
    [][last'.op = "addMessage" =>
         /\ \E message \in Dialogue :
              state'.messages = Append(state.messages, message)
         /\ state'.version = state.version
         /\ state'.files = state.files
         /\ state'.history = state.history
         /\ state'.currentPhase = state.currentPhase
         /\ snapshots' = snapshots
         /\ vfs' = vfs]_vars

\* a message was added after another one, to a state that has files, a
\* phase history and snapshots
C32_Witness ==
    /\ last.op = "addMessage"
    /\ Len(state.messages) = 2
    /\ state.messages[1] # state.messages[2]
    /\ state.version > 1
    /\ snapshots # <<>>

\* C33: after clear() the live state is a fresh empty state (version 1, phase
\* idle, no files, no messages, no phase history), the store is empty, no
\* snapshot is retained and the adapter holds nothing; a rollback that
\* follows returns false for every version and changes nothing
C33_ClearResetsEverything ==
    [][/\ last'.op = "clear" =>
            /\ state' = [files |-> EmptyFiles, messages |-> <<>>,
                         currentPhase |-> "idle", history |-> <<>>,
                         version |-> 1]
            /\ vfs' = EmptyFiles
            /\ snapshots' = <<>>
            /\ stored' = <<>>
       /\ last.op = "clear" /\ last'.op = "rollback" =>
            /\ last'.result = "false"
            /\ state' = state
            /\ vfs' = vfs]_vars

\* clear() was called after a transaction had taken a snapshot of a state
\* with files, and the rollback after it was asked for that version
C33_Witness ==
    /\ last.op = "rollback"
    /\ last.result = "false"
    /\ last.arg.version = tx.state.version
    /\ tx.vfs # EmptyFiles
    /\ state.version = 1
    /\ vfs = EmptyFiles
    /\ snapshots = <<>>

\* the snapshots of a list
Held(snaps) == {snaps[i] : i \in 1..Len(snaps)}

\* C34: a retained snapshot is immutable: every snapshot retained after an
\* operation is one that was retained before it, unchanged, or the one the
\* operation took of the live state; and a restore (by rollback or by a
\* failed transaction) makes exactly what the snapshot captured the live
\* state and the store, so that restoring it again after the live state was
\* mutated yields the same files, messages, phase history and version
C34_SnapshotsAreImmutable ==
    [][/\ Held(snapshots') \subseteq
            Held(snapshots) \cup {SnapshotOf(state), SnapshotOf(state')}
       /\ txSnapshot' # <<>> =>
            txSnapshot' \in {txSnapshot, <<SnapshotOf(state)>>}
       /\ last'.op = "rollback" /\ last'.result # "false" =>
            LET snapshot ==
                  snapshots[FindSnapshot(snapshots, last'.arg.version)] IN
            /\ snapshot \in Held(snapshots')
            /\ state' = snapshot.state
            /\ vfs' = snapshot.state.files
            /\ state'.version = last'.arg.version
       /\ last'.op = "transaction" /\ last'.result = "throw"
          /\ last'.arg.fn = "threw" =>
            /\ state' = txSnapshot[1].state
            /\ vfs' = txSnapshot[1].state.files]_vars

\* a snapshot was restored after the live state had moved on from it: a
\* later snapshot of a higher version, with other files, is retained too
C34_Witness ==
    /\ last.op = "rollback"
    /\ last.result = "true"
    /\ Len(snapshots) >= 2
    /\ snapshots[Len(snapshots)].version > last.arg.version
    /\ snapshots[Len(snapshots)].state.files # state.files
    /\ state = snapshots[FindSnapshot(snapshots, last.arg.version)].state

\* the file at path a imports, by one of its specifiers, the file at path b
ImportsFile(a, b) ==
    \E i \in 1..Len(resolver.files) :
      /\ resolver.files[i].path = a
      /\ LET imports == extractImports(resolver.files[i].content) IN
         \E k \in 1..Len(imports) :
           resolveImportPath(imports[k], a,
                             {resolver.files[j].path :
                                j \in 1..Len(resolver.files)}) = b

\* C35: both maps of the graph have exactly the paths of the files as keys;
\* the dependencies of a file have no duplicates, are in lexicographic
\* order, never hold the file itself and hold only paths of the files; every
\* import of another file is recorded, so two files that import each other
\* are each among the dependencies of the other; the graph is defined for
\* every list of files, and it is what the call returns
C35_GraphIsWellFormed ==
    resolver.kind = "graph" =>
      LET graph == buildDependencyGraph(resolver.files)
          paths == {resolver.files[i].path : i \in 1..Len(resolver.files)}
      IN
      /\ Built => resolver.graph = graph
      /\ DOMAIN graph.dependencies = paths
      /\ DOMAIN graph.dependents = paths
      /\ \A a \in paths :
           LET deps == graph.dependencies[a] IN
           /\ \A i, j \in 1..Len(deps) : i < j => less(deps[i], deps[j])
           /\ \A i \in 1..Len(deps) : deps[i] # a /\ deps[i] \in paths
           /\ \A b \in paths \ {a} :
                ImportsFile(a, b) =>
                  In(b, deps) /\ In(a, graph.dependents[b])

\* the graph of three files: /a.ts and /b.ts import each other, and /a.ts
\* imports the index file of /lib before it imports /b.ts
C35_Witness ==
    /\ Built
    /\ Len(resolver.files) = 3
    /\ \E i \in 1..3 :
         /\ resolver.files[i].path = <<"/", "a", ".", "ts">>
         /\ extractImports(resolver.files[i].content)
              = << <<".", "/", "lib">>, <<".", "/", "b">> >>
    /\ resolver.graph.dependencies[<<"/", "a", ".", "ts">>]
         = << <<"/", "b", ".", "ts">>,
              <<"/", "lib", "/", "index", ".", "ts">> >>
    /\ resolver.graph.dependencies[<<"/", "b", ".", "ts">>]
         = << <<"/", "a", ".", "ts">> >>

FileEvents == {"file:create", "file:update", "file:delete"}

Terminal == {"action:complete", "action:failed"}

\* what the run emitted about its Actions, in the order of the emits
ActionEvents ==
    SelectSeq(run.events,
              LAMBDA e : e.event \in {"action:start"} \cup FileEvents
                                       \cup Terminal)

\* C36: the Actions of the execute stage are processed one at a time in the
\* order of the plan: the events of an Action are action:start, then the
\* file events of its changes, emitted after updateFiles made the next
\* version of the state, then one of action:complete and action:failed;
\* the action:start of the next Action follows that event, at the version
\* the Action before left, so the mutations of two Actions never interleave
C36_ActionsOneAtATime ==
    LET acts == ActionEvents
        n    == Len(acts)
        from == IF \E i \in 1..n : acts[i].event = "action:start"
                THEN CHOOSE i \in 1..n :
                       /\ acts[i].event = "action:start"
                       /\ \A j \in (i + 1)..n : acts[j].event # "action:start"
                ELSE 0
    IN
    /\ acts # <<>> => acts[1].event = "action:start"
    /\ \A i \in 2..n :
         LET e == acts[i]  prev == acts[i - 1] IN
         /\ e.event = "action:start" =>
              prev.event \in Terminal /\ e.version = prev.version
         /\ e.event \in FileEvents =>
              /\ prev.event \in FileEvents \cup {"action:start"}
              /\ e.version = IF prev.event = "action:start"
                             THEN prev.version + 1 ELSE prev.version
         /\ e.event = "action:complete" =>
              /\ prev.event \in FileEvents \cup {"action:start"}
              /\ e.version = IF prev.event = "action:start"
                             THEN prev.version + 1 ELSE prev.version
         /\ e.event = "action:failed" =>
              /\ prev.event = "action:start"
              /\ e.version \in {prev.version, prev.version + 1}
    /\ run.pc = "action" =>
         /\ Cardinality({i \in 1..n : acts[i].event = "action:start"})
              = run.next - 1
         /\ acts # <<>> =>
              /\ acts[n].event \in Terminal
              /\ acts[n].version = state.version
              /\ acts[n].event = "action:complete" =>
                   [i \in 1..(n - from - 1) |-> acts[from + i].event]
                     = fileEvents(run.changes)

\* two Actions went through, each with a file event, at versions that
\* follow each other
C36_Witness ==
    /\ run.pc = "action"
    /\ Len(ActionEvents) = 6
    /\ ActionEvents[2].event \in FileEvents
    /\ ActionEvents[3].event = "action:complete"
    /\ ActionEvents[4].event = "action:start"
    /\ ActionEvents[5].event \in FileEvents
    /\ ActionEvents[6].version = ActionEvents[1].version + 2

\* the file map of the live state: a state that InMemoryAdapter.load
\* returned holds it as the array of its entries
StateFiles == IF last.op = "load" THEN MapOf(state.files) ELSE state.files

\* C37: after every operation of the StateManager the file map of the live
\* state equals the store: for every path, getFile and the entry of
\* getAllFiles()/getState() are the same file, or both are absent
C37_StateFilesMatchStore == StateFiles = vfs

\* C38: a failed run leaves no mutation of the files behind: whenever
\* sendMessage resolves with phase `error`, the store and State.version are
\* what they were right before the call
C38_FailedRunLeavesNoMutation ==
    run.promise = "fulfilled" /\ run.response.phase = "error" =>
      /\ vfs = run.before.files
      /\ state.version = run.before.version

\* the file at a path is not the same before and after the step: created,
\* written again or deleted
Mutated(p) ==
    \/ (p \in DOMAIN vfs) # (p \in DOMAIN vfs')
    \/ p \in DOMAIN vfs /\ p \in DOMAIN vfs' /\ vfs[p] # vfs'[p]

\* C39: a path is in the filesChanged of the execute stage exactly if its
\* file was created, updated or deleted in the store during the stage: each
\* Action adds to filesChanged the paths it mutated in the store, whether or
\* not they were there and whether or not the save of the mutation failed,
\* and no other path
C39_FilesChangedIffMutated ==
    [][run.pc = "action" /\ run'.next = run.next + 1 =>
         \A p \in Paths :
           /\ Mutated(p) => In(p, run'.filesChanged)
           /\ In(p, run'.filesChanged) /\ ~In(p, run.filesChanged)
                => Mutated(p)]_vars

\* C40: a sendMessage call appends one user message before any stage is
\* set, and one assistant message after it exactly if the run ends in phase
\* `completed`; after a run that ends in `error` the user message is the
\* last one of the list
C40_OneUserOneAssistantMessage ==
    LET k == run.before.messages
        m == state.messages
    IN
    /\ run.promise # "none" =>
         /\ Len(m) > k
         /\ m[k + 1] = [role |-> "user", content |-> Query]
    /\ run.promise = "pending" /\ run.stages = <<>> => Len(m) = k + 1
    /\ run.promise \in {"fulfilled", "rejected"} =>
         IF state.currentPhase = "completed"
         THEN Len(m) = k + 2 /\ m[k + 2].role = "assistant"
         ELSE Len(m) = k + 1

====
